---------------------------- MODULE Spec2Model ----------------------------
(***************************************************************************)
(* PocketSDR receiver channel (python/sdr_ch.py), navigation data decoder  *)
(* (python/sdr_nav.py) and the channel loop of python/pocket_trk.py.       *)
(*                                                                         *)
(* Conventions of the model                                                *)
(*  - Times are integers in milliseconds (T_ACQ = 0.010 s is 10).  For the *)
(*    code cycles used (1, 2, 4, 10, 20 ms) the float comparisons of the   *)
(*    source agree with the integer ones.                                  *)
(*  - C/N0 values are integers: the floor of the dB-Hz value.  Both        *)
(*    thresholds are integers and floor((floor(x) + m) / 2) =              *)
(*    floor((x + m) / 2) for an integer m, so comparing and smoothing      *)
(*    floors is exact for integer measurements.                            *)
(*  - Sample windows, correlator outputs and symbol buffers are not        *)
(*    stored.  What the code computes from them (a C/N0 estimate, a sync   *)
(*    correlation, a frame sync result, a parity / CRC / FEC result) is a  *)
(*    nondeterministic input; an operator of the model returns the SET of  *)
(*    channel records the function can leave behind.                       *)
(*  - Float fields that are only carried (fd, coff, adr, err_phas) and     *)
(*    arrays (P_sum, trk.P, trk.C, nav.syms) hold a tag: "0" for the       *)
(*    all-zero initial value, another tag naming the last kind of write.   *)
(*  - c.log holds the log() lines of the latest ch_update of the channel,  *)
(*    c.calls the functions that update invoked.                           *)
(***************************************************************************)
EXTENDS Integers, Sequences, FiniteSets, TLC

VARIABLES
    ch,     \* pocket_trk: ch[j], the receiver channels (0 .. len(prns) - 1)
    i,      \* pocket_trk: loop counter of the main loop (epoch number)
    ix,     \* pocket_trk: index of the channel re-armed last
    pc,     \* pocket_trk: position in the loop body: "update" or "srch";
            \* "raised" after an exception ended the program
    jx,     \* pocket_trk: index j of the next channel to update
    iend,   \* pocket_trk: number of code cycles read_data finds in the file
    nloss,  \* history: nloss[j], the LOCK -> IDLE transitions of channel j
    pre,    \* history: [j, c, op], channel j as it was before the latest
            \* operation op ("update", "rearm", "raise" for an
            \* update that ended with an exception) that was applied to it
    mid,    \* history: [a, b], the channel of the latest ch_update just
            \* before and just after the nav_decode step of track_sig
    call,   \* library test drivers: [op, ...], the latest call of a library
            \* function on its own, with its arguments and its results
    tables  \* sdr_nav, sdr_nb_ldpc: the module-level tables built so far
            \* (CNV2_SF1, BCNV1_SF1B, IRNV1_SF1, GF_MUL), shared by the channels

vars == <<ch, i, ix, pc, jx, iend, nloss, pre, mid, call, tables>>

----------------------------------------------------------------------------
(* constants of sdr_ch.py (ms, dB-Hz) and pocket_trk.py                     *)

T_ACQ == 10
T_DLL == 10
T_CN0 == 1000
T_FPULLIN == 1000
T_NPULLIN == 1500
THRES_CN0_LOST == 32
THRES_CN0_LOCK == 35
CYC_SRCH == 10000

----------------------------------------------------------------------------
(* bounds of the model                                                      *)

MaxErr == 1       \* frame errors counted per channel (nav.count[1])
MaxData == 2      \* frames recorded per channel (nav.count[0])
MaxLost == 1      \* losses of lock per channel (ch.lost)
ResumeLen == 3    \* code cycles in the file after a resumed lock episode
FramePhase == 1   \* lock counts between FirstFrame and the end of a frame
Horizon == 20     \* code cycles in the file after the last frame

----------------------------------------------------------------------------
(* signals: what sdr_code supplies to ch_new                                *)

Sigs == {"L6D", "L2CM"}

\* sdr_code.code_cyc(sig): code cycle (ms)
code_cyc(sig) ==
    CASE sig \in {"L6D", "L6E", "E1B"} -> 4
      [] sig \in {"L1CD", "B1CD", "I1SD"} -> 10
      [] sig = "L2CM" -> 20
      [] OTHER -> 1

\* len(sdr_code.sec_code(sig, prn)): length of the secondary code
sec_code_len(sig, prn) ==
    CASE sig \in {"L5I", "L5SIV"} -> 10
      [] sig = "E5AI" -> 20
      [] sig \in {"B1I", "B2I", "B3I"} -> IF prn >= 6 /\ prn <= 58 THEN 20 ELSE 1
      [] sig = "E5BI" -> 4
      [] sig \in {"B2AD", "G3OCD"} -> 5
      [] OTHER -> 1

\* the -prn option of pocket_trk: the PRN numbers of the channels
Prns(sig) ==
    CASE sig = "L6D" -> <<193>>
      [] OTHER -> <<1, 2>>

----------------------------------------------------------------------------
(* environment: the values the code computes from the sample windows        *)

\* corr_max: C/N0 of the acquisition peak (0: the power surface is all
\* zero).  The satellite of the second channel of a receiver is not in view.
AcqCN0(c) == IF c.prn = 2 THEN {0, 34} ELSE {0, 34, 35}

\* CN0: C/N0 of an averaging window that has noise power (sumN > 0)
TrkCN0 == {29, 35}

\* The two signals that are followed from ch_new on carry a frame every
\* FramePeriod lock counts, the first one complete at FirstFrame (after the
\* pull-in time T_NPULLIN and the first full buffer of symbols): only a
\* window that ends with a frame can show the preambles of the signal.
\* For the other signals any epoch may end a frame.
FramePeriod(sig) ==
    CASE sig = "L6D" -> 250
      [] sig = "L2CM" -> 600
      [] OTHER -> 1

FirstFrame(sig) ==
    CASE sig = "L6D" -> 380
      [] sig = "L2CM" -> 695
      [] OTHER -> 0

Aligned(c) ==
    (c.lock - FirstFrame(c.sig)) % FramePeriod(c.sig)
        = FramePhase % FramePeriod(c.sig)

\* test_CRC, test_LNAV_parity, sdr_rtk.test_glostr on a candidate frame
test_CRC == BOOLEAN

test_LNAV_parity == BOOLEAN

test_glostr == BOOLEAN

\* sdr_fec.decode_rs: number of corrected symbols, -1 if too many errors
decode_rs == {-1, 0, 2}

\* sdr_ldpc.decode_LDPC: number of corrected bits, -1 if the iterations
\* run out before the parity checks are satisfied
decode_LDPC == {-1, 0, 3}

\* The symbol buffer against the subframe 1 markers of a signal with the
\* given cycle: m[t] is what the frame sync function returns for the
\* hypothesis t (1 normal, 0 reversed, -1 no sync).  The markers of at most
\* two hypotheses are found, among the first two and the last one.
MarkerIn(cycle) ==
    { [t \in 0 .. cycle - 1 |->
          IF t = t1 THEN r1 ELSE IF t = t2 THEN r2 ELSE -1]
      : t1 \in {0, 1}, t2 \in {1, cycle - 1}, r1 \in {-1, 0, 1}, r2 \in {-1, 0, 1} }

\* ch.nav.syms[-1800]: the symbol of the WN MSB in subframe 2
WnIn == {0, 1}

\* sequence number read from a validated frame (TOW, message type, id)
SeqIn == {1}

----------------------------------------------------------------------------
(* sdr_func.py / sdr_ch.py helpers                                          *)

Log(c, msg) == [c EXCEPT !.log = Append(@, msg)]

\* a '$LOG,time,sig,prn,text' line and a '$TAG,time,sig,prn,payload' line
LogMsg(c, time, text) == <<"$LOG", time, c.sig, c.prn, text>>

\* a '$LOG' line that ends with a C/N0 value
LogCN0(c, time, text, cn0) == <<"$LOG", time, c.sig, c.prn, text, cn0>>

NavMsg(c, tag, time) == <<tag, time, c.sig, c.prn, "hex">>

Call(c, f) == [c EXCEPT !.calls = @ \cup {f}]

\* the frame marker hypothesis t is tested against the symbol buffer
Test(c, t) == [c EXCEPT !.tested = Append(@, t)]

\* a module-level table is built if it is empty; c.glob are the tables built
\* so far as the call of ch_update on c finds and leaves them
Built(c, table) == [c EXCEPT !.glob = @ \cup {table}]

\* the call of an FEC decoder f that returned nerr ("FEC -1": it failed)
FEC(c, f, nerr) == IF nerr < 0 THEN Call(Call(c, f), "FEC -1") ELSE Call(c, f)

Max(a, b) == IF a >= b THEN a ELSE b

Min(a, b) == IF a <= b THEN a ELSE b

----------------------------------------------------------------------------
(* sdr_nav.py: nav data                                                     *)

nav_new ==
    [ssync |-> 0, fsync |-> 0, rev |-> 0, seq |-> 0, nerr |-> 0,
     syms |-> "0", data |-> <<>>, count |-> [k \in {0, 1} |-> 0]]

\* nav_init without "nav.fsync = 0"
nav_init_keep_fsync(nav) ==
    [nav EXCEPT !.ssync = 0, !.rev = 0, !.seq = 0, !.syms = "0"]

nav_init(nav) ==
    [nav EXCEPT !.ssync = 0, !.fsync = 0, !.rev = 0, !.seq = 0, !.syms = "0"]

----------------------------------------------------------------------------
(* sdr_ch.py: receiver channel                                              *)

acq_new == [P_sum |-> "0", n_sum |-> 0]

trk_new ==
    [C |-> "0", P |-> "0", sec_sync |-> 0, sec_pol |-> 0, err_phas |-> "0",
     sumP |-> "0", sumE |-> "0", sumL |-> "0", sumN |-> "0", wiped |-> 0]

trk_init(trk) ==
    [trk EXCEPT !.err_phas = "0", !.sec_sync = 0, !.sec_pol = 0,
                !.sumP = "0", !.sumE = "0", !.sumL = "0", !.sumN = "0",
                !.C = "0", !.P = "0", !.wiped = 0]

\* ch.nerr does not exist until decode_L6_frame assigns it
NoAttr == -2

ch_new(sig, prn) ==
    [state |-> "IDLE", time |-> 0, sig |-> sig, prn |-> prn,
     T |-> code_cyc(sig), N_sec |-> sec_code_len(sig, prn),
     fd |-> "0", coff |-> "0", adr |-> "0", cn0 |-> 0, lock |-> 0, lost |-> 0,
     costas |-> ~(sig = "L6D" \/ sig = "L6E"),
     acq |-> acq_new, trk |-> trk_new, nav |-> nav_new,
     nerr |-> NoAttr, log |-> <<>>, calls |-> {}, tested |-> <<>>, glob |-> {}]

\* start_track without "ch.lock = 0"
start_track_keep_lock(c, fd, coff, cn0) ==
    [c EXCEPT !.state = "LOCK", !.fd = fd, !.coff = coff,
              !.adr = "0", !.cn0 = cn0,
              !.trk = trk_init(@), !.nav = nav_init(@)]

start_track(c, fd, coff, cn0) ==
    [c EXCEPT !.state = "LOCK", !.lock = 0, !.fd = fd, !.coff = coff,
              !.adr = "0", !.cn0 = cn0,
              !.trk = trk_init(@), !.nav = nav_init(@)]

\* search_sig without the reset of P_sum and n_sum after the decision
search_sig_keep_sum(c, time) ==
    LET c1 == [c EXCEPT !.time = time, !.acq.P_sum = "acc", !.acq.n_sum = @ + 1]
    IN  IF c1.acq.n_sum * c1.T >= T_ACQ
        THEN { IF cn0 >= THRES_CN0_LOCK
               THEN Log(start_track(c1, "acq", "acq", cn0),
                        LogCN0(c1, c1.time, "SIGNAL FOUND", cn0))
               ELSE Log([c1 EXCEPT !.state = "IDLE"],
                        LogCN0(c1, c1.time, "SIGNAL NOT FOUND", cn0))
               : cn0 \in AcqCN0(c) }
        ELSE {c1}

search_sig(c, time) ==
    LET c1 == [c EXCEPT !.time = time, !.acq.P_sum = "acc", !.acq.n_sum = @ + 1]
        reset(d) == [d EXCEPT !.acq.P_sum = "0", !.acq.n_sum = 0]
    IN  IF c1.acq.n_sum * c1.T >= T_ACQ
        THEN { reset(IF cn0 >= THRES_CN0_LOCK
                     THEN Log(start_track(c1, "acq", "acq", cn0),
                              LogCN0(c1, c1.time, "SIGNAL FOUND", cn0))
                     ELSE Log([c1 EXCEPT !.state = "IDLE"],
                              LogCN0(c1, c1.time, "SIGNAL NOT FOUND", cn0)))
               : cn0 \in AcqCN0(c) }
        ELSE {c1}

\* sdr_ch.sync_sec_code: sync and remove the secondary code.  P, the
\* normalized correlation of the last N prompt values with the secondary
\* code, and their mean are inputs, in units of 0.001 as the thresholds
THRES_SYNC == 40
THRES_LOST == 3

SecCorrIn == {-40, 39, 40}

SecMeanIn == {2, -3}

\* the mark in c.calls of the value sync_sec_code computed
SecCorr(P) == CASE P = -40 -> "P = -0.040" [] P = 39 -> "P = 0.039"
                [] P = 40 -> "P = 0.040"

SecMean(P) == CASE P = 2 -> "mean = 0.002" [] P = -3 -> "mean = -0.003"

Abs(x) == IF x < 0 THEN 0 - x ELSE x

\* trk.wiped counts the newest entries of the history trk.P, up to the
\* newest but one, that "ch.trk.P[-1] *= C" has multiplied by the secondary
\* code.  track_sig appends the prompt value of the epoch before it calls
\* sync_sec_code, so the newest entry is as correlated until WipeLast.
\* The mark in c.calls of a mean over the last N entries says whether every
\* entry of the window had the code removed
MeanOf(f, wiped, N) ==
    IF wiped >= N THEN f \o ": code removed" ELSE f \o ": code left"

\* "if ch.trk.sec_sync > 0: ... ch.trk.P[-1] *= C"
WipeLast(c, N) ==
    [c EXCEPT !.trk.wiped = IF c.trk.sec_sync > 0
                            THEN (IF @ + 1 > N THEN N ELSE @ + 1) ELSE 0]

\* the entries of the window P[-N:] of the loss test that are wiped: the
\* newest one is not, the N - 1 before it are if trk.wiped reaches them
LossWindow(c, N) == IF c.trk.wiped > N - 1 THEN N - 1 ELSE c.trk.wiped

\* sync_sec_code that drops the sync at every code period
ch_sync_sec_code_drop(c, N) ==
    LET c0 == Call(c, "ch.sync_sec_code")
        c1 == Call(c0, MeanOf("ch.sync_sec_code", LossWindow(c0, N), N))
    IN  IF c0.trk.sec_sync = 0
        THEN { WipeLast(IF Abs(P) >= THRES_SYNC
               THEN [Call(c0, SecCorr(P)) EXCEPT !.trk.sec_sync = c0.lock,
                                  !.trk.sec_pol = IF P > 0 THEN 1 ELSE -1]
               ELSE Call(c0, SecCorr(P)), N) : P \in SecCorrIn }
        ELSE IF (c0.lock - c0.trk.sec_sync) % N = 0
        THEN { WipeLast([Call(c1, SecMean(P)) EXCEPT !.trk.sec_sync = 0,
                                                     !.trk.sec_pol = 0], N)
               : P \in SecMeanIn }
        ELSE {WipeLast(c0, N)}

ch_sync_sec_code(c, N) ==
    LET c0 == Call(c, "ch.sync_sec_code")
        c1 == Call(c0, MeanOf("ch.sync_sec_code", LossWindow(c0, N), N))
    IN  IF c0.trk.sec_sync = 0
        THEN { WipeLast(IF Abs(P) >= THRES_SYNC
               THEN [Call(c0, SecCorr(P)) EXCEPT !.trk.sec_sync = c0.lock,
                                  !.trk.sec_pol = IF P > 0 THEN 1 ELSE -1]
               ELSE Call(c0, SecCorr(P)), N) : P \in SecCorrIn }
        ELSE IF (c0.lock - c0.trk.sec_sync) % N = 0
        THEN { WipeLast(IF Abs(P) < THRES_LOST
               THEN [Call(c1, SecMean(P)) EXCEPT !.trk.sec_sync = 0, !.trk.sec_pol = 0]
               ELSE Call(c1, SecMean(P)), N) : P \in SecMeanIn }
        ELSE {WipeLast(c0, N)}

\* The correlator outputs of one code cycle, followed by class: "corr" for
\* a window that holds samples (every output nonzero), "0" for an all-zero
\* window (every output 0.0).  A sum of magnitudes is "0" as long as only
\* zeros were added to it and "acc" from the first nonzero term on.
\* All-zero windows are in the files of the signals followed from ch_new.
CorrIn(c) == IF c.sig \in Sigs THEN {"corr", "0"} ELSE {"corr"}

Sum(acc, C) == IF C = "0" THEN acc ELSE "acc"

\* dot = IP1 * IP2 + QP1 * QP2 with P[-1] = 0 is 0.0: "if dot != 0.0"
\* the mark in c.calls of the bandwidth the FLL updated the Doppler with
B_FLL(c) == IF c.lock * c.T < T_FPULLIN \div 2 THEN "B_FLL[0]" ELSE "B_FLL[1]"

\* FLL without "if ch.lock >= 2"
FLL_any_lock(c) ==
    LET c0 == Call(c, "FLL")
    IN  IF c0.trk.C # "0" THEN [Call(c0, B_FLL(c0)) EXCEPT !.fd = "trk"] ELSE c0

FLL(c) ==
    LET c0 == Call(c, "FLL")
    IN  IF c0.lock >= 2 /\ c0.trk.C # "0"
        THEN [Call(c0, B_FLL(c0)) EXCEPT !.fd = "trk"] ELSE c0

\* "if IP != 0.0"
PLL(c) ==
    LET c0 == Call(c, "PLL")
    IN  IF c0.trk.C # "0" THEN [c0 EXCEPT !.fd = "trk", !.trk.err_phas = "err"]
        ELSE c0

\* (E - L) / (E + L) on numpy scalars: with E = L = 0.0 the quotient is NaN
\* (a RuntimeWarning, no exception) and so is ch.coff from then on
DLL(c) ==
    LET N == Max(1, T_DLL \div c.T)
        c1 == [c EXCEPT !.calls = @ \cup {"DLL"},
                        !.trk.sumE = Sum(@, c.trk.C), !.trk.sumL = Sum(@, c.trk.C)]
    IN  IF c1.lock % N = 0
        THEN [c1 EXCEPT !.coff = IF c1.trk.sumE = "0" /\ c1.trk.sumL = "0"
                                 THEN "nan" ELSE "trk",
                        !.trk.sumE = "0", !.trk.sumL = "0"]
        ELSE c1

\* CN0 that smooths ch.cn0 in every epoch
CN0_every_epoch(c) ==
    LET c1 == [c EXCEPT !.calls = @ \cup {"CN0"},
                        !.trk.sumP = Sum(@, c.trk.C), !.trk.sumN = Sum(@, c.trk.C)]
        reset(d) == [d EXCEPT !.trk.sumP = "0", !.trk.sumN = "0"]
    IN  IF c1.lock % 1 = 0
        THEN IF c1.trk.sumN # "0"
             THEN { reset([c1 EXCEPT !.cn0 = (@ + cn0) \div 2]) : cn0 \in TrkCN0 }
             ELSE {reset(c1)}
        ELSE {c1}

\* "if ch.trk.sumN > 0.0"
CN0(c) ==
    LET c1 == [c EXCEPT !.calls = @ \cup {"CN0"},
                        !.trk.sumP = Sum(@, c.trk.C), !.trk.sumN = Sum(@, c.trk.C)]
        reset(d) == [d EXCEPT !.trk.sumP = "0", !.trk.sumN = "0"]
    IN  IF c1.lock % (T_CN0 \div c1.T) = 0
        THEN IF c1.trk.sumN # "0"
             THEN { reset([c1 EXCEPT !.cn0 = (@ + cn0) \div 2]) : cn0 \in TrkCN0 }
             ELSE {reset(c1)}
        ELSE {c1}

\* decode L6 CSK: adds the CSK symbol to the symbol buffer and interpolates
\* the correlator outputs from C
CSK(c, C) == [c EXCEPT !.nav.syms = "sym", !.trk.C = C]

----------------------------------------------------------------------------
(* sdr_nav.py: symbol and frame synchronization                             *)

\* sets of outcomes are combined by applying f to every member of S
Bind(S, f(_)) == UNION { f(x) : x \in S }

\* a record appended to nav.data: (time, data).  With it the model keeps
\* the integrity check that accepted the data in the call that appended it
\* ("none": the call made no check), the sequence number that is part of
\* the data, the lock count of that call and the number of the lock episode
\* (ch.lost of that call).
NavData(c, time, type, check, seq) ==
    [time |-> time, type |-> type, check |-> check, seq |-> seq,
     lock |-> c.lock, episode |-> c.lost]

\* add a symbol to the symbol buffer; c.calls counts the symbols added in
\* one call of ch_update
add_sym(c) ==
    [Call(c, IF "add_buff(syms)" \in c.calls THEN "add_buff(syms) twice"
             ELSE "add_buff(syms)") EXCEPT !.nav.syms = "sym"]

\* the inputs of sync_symb in units of 0.001: the normalized correlation of
\* the last 2n prompt values with the bit transition and the mean of the
\* last N prompt values, and their marks in c.calls
SymbCorrIn == {39, -40}

SymbMeanIn == {-2, 3}

SymbCorr(P) == CASE P = 39 -> "transition = 0.039" [] P = -40 -> "transition = -0.040"

SymbMean(P) == CASE P = -2 -> "symbol = -0.002" [] P = 3 -> "symbol = 0.003"

\* the value sync_symb returned
Returned(c, ret) ==
    Call(c, IF ret THEN "sync_symb: True" ELSE "sync_symb: False")

\* sync_symb that keeps the symbol sync only above THRES_LOST
sync_symb_above(c, N) ==
    LET n == IF N <= 2 THEN 1 ELSE 2
        c0 == Call(c, "sync_symb")
    IN  IF c0.nav.ssync = 0
        THEN { [ret |-> FALSE,
                c |-> Returned(IF Abs(P) >= THRES_SYNC
                               THEN [Call(c0, SymbCorr(P))
                                     EXCEPT !.nav.ssync = c0.lock - n]
                               ELSE Call(c0, SymbCorr(P)), FALSE)]
               : P \in SymbCorrIn }
        ELSE IF (c0.lock - c0.nav.ssync) % N = 0
        THEN { IF Abs(P) > THRES_LOST
               THEN [ret |-> TRUE,
                     c |-> Returned(add_sym(Call(c0, SymbMean(P))), TRUE)]
               ELSE [ret |-> FALSE,
                     c |-> Returned([Call(c0, SymbMean(P))
                                     EXCEPT !.nav.ssync = 0, !.nav.rev = 0], FALSE)]
               : P \in SymbMeanIn }
        ELSE {[ret |-> FALSE, c |-> Returned(c0, FALSE)]}

\* sync nav symbols by bit transition: the set of [ret, c]
sync_symb(c, N) ==
    LET n == IF N <= 2 THEN 1 ELSE 2
        c0 == Call(c, "sync_symb")
    IN  IF c0.nav.ssync = 0
        THEN { [ret |-> FALSE,
                c |-> Returned(IF Abs(P) >= THRES_SYNC
                               THEN [Call(c0, SymbCorr(P))
                                     EXCEPT !.nav.ssync = c0.lock - n]
                               ELSE Call(c0, SymbCorr(P)), FALSE)]
               : P \in SymbCorrIn }
        ELSE IF (c0.lock - c0.nav.ssync) % N = 0
        THEN { IF Abs(P) >= THRES_LOST
               THEN [ret |-> TRUE,
                     c |-> Returned(add_sym(Call(c0, SymbMean(P))), TRUE)]
               ELSE [ret |-> FALSE,
                     c |-> Returned([Call(c0, SymbMean(P))
                                     EXCEPT !.nav.ssync = 0, !.nav.rev = 0], FALSE)]
               : P \in SymbMeanIn }
        ELSE {[ret |-> FALSE, c |-> Returned(c0, FALSE)]}

\* sync secondary code: the set of [ret, c]
sync_sec_code(c) ==
    LET N == c.N_sec
    IN  IF N < 2 \/ c.trk.sec_sync = 0 \/ (c.lock - c.trk.sec_sync) % N # 0
        THEN {[ret |-> FALSE, c |-> c]}
        ELSE {[ret |-> TRUE,
               c |-> add_sym(Call(c, MeanOf("nav.sync_sec_code", c.trk.wiped, N)))]}

\* sync nav frame by 2 preambles: 0 normal, 1 reversed, -1 no sync
sync_frame(c) == IF Aligned(c) THEN {-1, 0, 1} ELSE {-1}

\* the marks of the polarity a frame was found with; they are kept in
\* c.calls for the frames that pass their check
FrameSyncs == {"FRAME SYNC (N)", "FRAME SYNC (R)"}

\* sync_frame was called at a frame end and returned rev: the mark in
\* c.calls of the line it logged, "FRAME SYNC (N)" with 0, "(R)" with 1
FrameSync(c, rev) ==
    LET c0 == Call(c, "frame")
    IN  IF rev = 0 THEN Call(c0, "FRAME SYNC (N)")
        ELSE IF rev = 1 THEN Call(c0, "FRAME SYNC (R)")
        ELSE c0

\* sync_CNV2_frame, sync_BCNV1_frame or sync_IRNV1_frame returned rev: the
\* line it logged, "FRAME SYNC (N)" with 1, "(R)" with 0
MarkerSync(c, rev) ==
    IF rev = 1 THEN Call(c, "FRAME SYNC (N)")
    ELSE IF rev = 0 THEN Call(c, "FRAME SYNC (R)")
    ELSE c

----------------------------------------------------------------------------
(* sdr_nav.py: the two ends of a frame decoder.  ssync and rev are the      *)
(* values the branch leaves in nav.ssync and nav.rev.                       *)

\* Accept without "ch.nav.count[0] += 1"
Accept_no_count(c, tag, time, ssync, rev, seq, nerr, check) ==
    Log([c EXCEPT !.nav.ssync = ssync, !.nav.fsync = c.lock, !.nav.rev = rev,
                  !.nav.seq = seq, !.nav.nerr = nerr,
                  !.nav.data = Append(@, NavData(c, time, tag, check, seq))],
        NavMsg(c, tag, time))

\* the frame passed the check: frame sync at this lock count, record, count
Accept(c, tag, time, ssync, rev, seq, nerr, check) ==
    Log([c EXCEPT !.nav.ssync = ssync, !.nav.fsync = c.lock, !.nav.rev = rev,
                  !.nav.seq = seq, !.nav.nerr = nerr,
                  !.nav.data = Append(@, NavData(c, time, tag, check, seq)),
                  !.nav.count[0] = @ + 1],
        NavMsg(c, tag, time))

\* Reject without "ch.nav.fsync = 0"
Reject_keep_fsync(c, text, time, ssync, rev) ==
    Log([c EXCEPT !.nav.ssync = ssync, !.nav.rev = rev, !.nav.count[1] = @ + 1,
                  !.calls = @ \ FrameSyncs],
        LogMsg(c, time, text))

\* the frame failed the check: frame sync cleared, error counted
Reject(c, text, time, ssync, rev) ==
    Log([c EXCEPT !.nav.ssync = ssync, !.nav.fsync = 0, !.nav.rev = rev,
                  !.nav.count[1] = @ + 1, !.calls = @ \ FrameSyncs],
        LogMsg(c, time, text))

\* frame sync given up without a frame test
Unsync(c, ssync) == [c EXCEPT !.nav.ssync = ssync, !.nav.fsync = 0, !.nav.rev = 0]

----------------------------------------------------------------------------
(* sdr_nav.py: GPS / QZSS                                                   *)

decode_LNAV(c, rev) ==
    LET time == c.time - 20 * 308
    IN  { IF ok
          THEN Accept(c, "$LNAV", time, c.nav.ssync, rev, seq, c.nav.nerr, "parity")
          ELSE Reject(c, "LNAV PARITY ERROR", time, c.nav.ssync, 0)
          : ok \in test_LNAV_parity, seq \in SeqIn }

decode_L1CA_LNAV(c) ==
    Bind(sync_symb(c, 20), LAMBDA s :
        IF ~s.ret THEN {s.c}
        ELSE IF s.c.nav.fsync > 0
        THEN IF s.c.lock = s.c.nav.fsync + 6000
             THEN Bind(sync_frame(s.c), LAMBDA rev :
                    IF rev = s.c.nav.rev THEN decode_LNAV(FrameSync(s.c, rev), rev)
                    ELSE {[FrameSync(s.c, rev) EXCEPT !.nav.fsync = 0, !.nav.rev = 0]})
             ELSE {s.c}
        ELSE IF s.c.lock >= 20 * 308 + 1000
        THEN Bind(sync_frame(s.c), LAMBDA rev :
               IF rev >= 0 THEN decode_LNAV(FrameSync(s.c, rev), rev)
               ELSE {FrameSync(s.c, rev)})
        ELSE {s.c})

decode_SBAS_msgs(c, rev) ==
    LET time == c.time - 1088
    IN  { IF ok
          THEN Accept(c, "$SBAS", time, c.nav.ssync, rev, seq, c.nav.nerr, "CRC")
          ELSE Reject(c, "SBAS FRAME ERROR", time, c.nav.ssync, 0)
          : ok \in test_CRC, seq \in SeqIn }

\* sync_SBAS_msgs: 0 normal, 1 reversed, -1 no sync
sync_SBAS_msgs(c) == {-1, 0, 1}

search_SBAS_msgs(c) ==
    Bind(sync_SBAS_msgs(c), LAMBDA rev :
        IF rev >= 0 THEN decode_SBAS_msgs(Call(c, "frame"), rev)
        ELSE {Call(c, "frame")})

decode_SBAS(c) ==
    Bind(sync_symb(c, 2), LAMBDA s :
        IF ~s.ret THEN {s.c}
        ELSE IF s.c.nav.fsync > 0
        THEN IF s.c.lock >= s.c.nav.fsync + 1000 THEN search_SBAS_msgs(s.c)
             ELSE IF s.c.lock > s.c.nav.fsync + 2000
             THEN {[s.c EXCEPT !.nav.fsync = 0, !.nav.rev = 0]}
             ELSE {s.c}
        ELSE IF s.c.lock > 1088 + 1000 THEN search_SBAS_msgs(s.c)
        ELSE {s.c})

decode_L1CA(c) ==
    IF c.prn >= 120 /\ c.prn <= 158 THEN decode_SBAS(c)
    ELSE decode_L1CA_LNAV(c)

decode_L1S(c) == decode_SBAS(c)

decode_L1CB(c) == decode_L1CA(c)

\* sync_CNV2_frame: 1 normal, 0 reversed, -1 no sync; syms stands for the
\* symbols by what they match
sync_CNV2_frame(c, syms, toi) == syms[toi]

decode_CNV2(c, rev, toi) ==
    LET time == c.time - 18520
    IN  { LET d == FEC(FEC(c, "decode_LDPC", nerr1), "decode_LDPC", nerr2)
            IN  IF ok
                THEN Accept(d, "$CNV2", time, c.lock, rev, toi, nerr1 + nerr2, "CRC")
                ELSE Reject(d, "CNV2 FRAME ERROR", time, 0, c.nav.rev)
          : ok \in test_CRC, nerr1 \in decode_LDPC, nerr2 \in decode_LDPC }

\* search and decode CNAV-2 frame: "for toi in range(400)" tests the
\* hypotheses in ascending order up to the one it breaks at
decode_L1CD_search(c, syms, sym) ==
    LET hit(t) == LET rev == sync_CNV2_frame(c, syms, t)
                  IN  rev >= 0 /\ sym # rev
        n == IF \E t \in 0 .. 399 : hit(t)
             THEN CHOOSE t \in 0 .. 399 : hit(t) /\ \A u \in 0 .. t - 1 : ~hit(u)
             ELSE 399
        c1 == [Built(c, "CNV2_SF1") EXCEPT !.tested = @ \o [k \in 1 .. n + 1 |-> k - 1]]
    IN  IF hit(n)
        THEN decode_CNV2(MarkerSync(c1, sync_CNV2_frame(c1, syms, n)),
                 sync_CNV2_frame(c1, syms, n), n)
        ELSE {c1}

\* decode_L1CD that tests the TOI of the last frame again
decode_L1CD_same_toi(c) ==
    LET c1 == add_sym(c)
    IN  IF c1.nav.fsync > 0
        THEN IF c1.lock = c1.nav.fsync + 1800
             THEN UNION { LET toi == c1.nav.seq
                              c2 == Built(Test(Call(c1, "frame"), toi), "CNV2_SF1")
                              rev == sync_CNV2_frame(c2, syms, toi)
                          IN  IF rev = c1.nav.rev /\ sym # rev
                              THEN decode_CNV2(MarkerSync(c2, rev), rev, toi)
                              ELSE {Unsync(c2, 0)}
                          : syms \in MarkerIn(400), sym \in WnIn }
             ELSE {c1}
        ELSE IF c1.lock >= 1852 + 100
        THEN UNION { decode_L1CD_search(Call(c1, "frame"), syms, sym)
                     : syms \in MarkerIn(400), sym \in WnIn }
        ELSE {c1}

decode_L1CD(c) ==
    LET c1 == add_sym(c)
    IN  IF c1.nav.fsync > 0
        THEN IF c1.lock = c1.nav.fsync + 1800
             THEN UNION { LET toi == (c1.nav.seq + 1) % 400
                              c2 == Built(Test(Call(c1, "frame"), toi), "CNV2_SF1")
                              rev == sync_CNV2_frame(c2, syms, toi)
                          IN  IF rev = c1.nav.rev /\ sym # rev
                              THEN decode_CNV2(MarkerSync(c2, rev), rev, toi)
                              ELSE {Unsync(c2, 0)}
                          : syms \in MarkerIn(400), sym \in WnIn }
             ELSE {c1}
        ELSE IF c1.lock >= 1852 + 100
        THEN UNION { decode_L1CD_search(Call(c1, "frame"), syms, sym)
                     : syms \in MarkerIn(400), sym \in WnIn }
        ELSE {c1}

decode_CNAV(c, rev) ==
    LET time == c.time - 6440
    IN  { IF ok
          THEN Accept(c, "$CNAV", time, c.lock, rev, seq, c.nav.nerr, "CRC")
          ELSE Reject(c, "CNAV FRAME ERROR", time, c.nav.ssync, 0)
          : ok \in test_CRC, seq \in SeqIn }

search_CNAV_frame(c) ==
    Bind(sync_frame(c), LAMBDA rev :
        IF rev >= 0 THEN decode_CNAV(FrameSync(c, rev), rev)
        ELSE {FrameSync(c, rev)})

decode_L2CM(c) ==
    LET c1 == add_sym(c)
    IN  IF c1.nav.fsync > 0
        THEN IF c1.lock >= c1.nav.fsync + 600 THEN search_CNAV_frame(c1)
             ELSE IF c1.lock > c1.nav.fsync + 1200 THEN {Unsync(c1, 0)}
             ELSE {c1}
        ELSE IF c1.lock > 644 + 50 THEN search_CNAV_frame(c1)
        ELSE {c1}

\* sync_L5_SBAS_msgs: 0 normal, 1 reversed, -1 no sync
sync_L5_SBAS_msgs(c) == {-1, 0, 1}

search_L5_SBAS_msgs(c) ==
    Bind(sync_L5_SBAS_msgs(c), LAMBDA rev :
        IF rev >= 0 THEN decode_SBAS_msgs(Call(c, "frame"), rev)
        ELSE {Call(c, "frame")})

decode_L5_SBAS(c) ==
    Bind(sync_sec_code(c), LAMBDA s :
        IF ~s.ret THEN {s.c}
        ELSE IF s.c.nav.fsync > 0
        THEN IF s.c.lock >= s.c.nav.fsync + 1000 THEN search_L5_SBAS_msgs(s.c)
             ELSE IF s.c.lock > s.c.nav.fsync + 2000
             THEN {[s.c EXCEPT !.nav.fsync = 0, !.nav.rev = 0]}
             ELSE {s.c}
        ELSE IF s.c.lock >= 3093 + 1000 THEN search_L5_SBAS_msgs(s.c)
        ELSE {s.c})

decode_L5I(c) ==
    IF c.prn >= 120 /\ c.prn <= 158 THEN decode_L5_SBAS(c)
    ELSE Bind(sync_sec_code(c), LAMBDA s :
        IF ~s.ret THEN {s.c}
        ELSE IF s.c.nav.fsync > 0
        THEN IF s.c.lock >= s.c.nav.fsync + 6000 THEN search_CNAV_frame(s.c)
             ELSE IF s.c.lock > s.c.nav.fsync + 12000
             THEN {[s.c EXCEPT !.nav.fsync = 0, !.nav.rev = 0]}
             ELSE {s.c}
        ELSE IF s.c.lock > 6440 + 1000 THEN search_CNAV_frame(s.c)
        ELSE {s.c})

decode_L5SI(c) == decode_SBAS(c)

decode_L5SIV(c) == decode_L5_SBAS(c)

\* the two preamble differences of the L6 frame match (n1 + n2 >= 8)
L6Preamb(c) == IF Aligned(c) THEN BOOLEAN ELSE {FALSE}

\* ch.nerr = decode_rs(buff): the count is left in the channel, not in nav
decode_L6_frame(c) ==
    LET time == c.time - 4 * 255
        c1 == Call(c, "frame")
    IN  UNION { IF ~match THEN {[c1 EXCEPT !.nav.ssync = 0, !.nav.fsync = 0]}
                ELSE { IF nerr >= 0
                       THEN Log([FEC(c1, "decode_rs", nerr) EXCEPT !.nerr = nerr,
                                     !.nav.ssync = c1.lock, !.nav.fsync = c1.lock,
                                     !.nav.seq = seq,
                                     !.nav.data = Append(@, NavData(c, time, "$L6FRM", "RS", seq)),
                                     !.nav.count[0] = @ + 1],
                                <<"$L6FRM", time, c1.sig, c1.prn, nerr, "hex">>)
                       ELSE Log([FEC(c1, "decode_rs", nerr) EXCEPT !.nerr = nerr,
                                     !.nav.ssync = 0, !.nav.fsync = 0,
                                     !.nav.count[1] = @ + 1],
                                LogMsg(c1, time, "L6FRM RS ERROR"))
                       : nerr \in decode_rs, seq \in SeqIn }
                : match \in L6Preamb(c) }

\* decode_L6D with the next frame expected 200 lock counts after the last
decode_L6D_early(c) ==
    IF c.nav.fsync > 0
    THEN IF c.lock = c.nav.fsync + 200 THEN decode_L6_frame(c) ELSE {c}
    ELSE IF c.lock >= 255 THEN decode_L6_frame(c)
    ELSE {c}

decode_L6D(c) ==
    IF c.nav.fsync > 0
    THEN IF c.lock = c.nav.fsync + 250 THEN decode_L6_frame(c) ELSE {c}
    ELSE IF c.lock >= 255 THEN decode_L6_frame(c)
    ELSE {c}

decode_L6E(c) == decode_L6D(c)

----------------------------------------------------------------------------
(* sdr_nav.py: GLONASS                                                      *)

decode_glo_str(c, rev) ==
    LET time == c.time - 2000
    IN  { IF ok
          THEN Accept(c, "$GSTR", time, c.nav.ssync, rev, c.nav.seq, c.nav.nerr, "hamming")
          ELSE Reject(c, "GSTR HAMMING ERROR", time, c.nav.ssync, 0)
          : ok \in test_glostr }

decode_G1CA(c) ==
    Bind(sync_symb(c, 10), LAMBDA s :
        IF ~s.ret THEN {s.c}
        ELSE IF s.c.nav.fsync > 0
        THEN IF s.c.lock >= s.c.nav.fsync + 2000
             THEN Bind(sync_frame(s.c), LAMBDA rev :
                    IF rev = s.c.nav.rev THEN decode_glo_str(FrameSync(s.c, rev), rev)
                    ELSE {FrameSync(s.c, rev)})
             ELSE IF s.c.lock > s.c.nav.fsync + 4000
             THEN {[s.c EXCEPT !.nav.fsync = 0, !.nav.rev = 0]}
             ELSE {s.c}
        ELSE IF s.c.lock >= 2300 + 2000
        THEN Bind(sync_frame(s.c), LAMBDA rev :
               IF rev >= 0 THEN decode_glo_str(FrameSync(s.c, rev), rev)
               ELSE {FrameSync(s.c, rev)})
        ELSE {s.c})

decode_G2CA(c) == decode_G1CA(c)

decode_glo_L3OCD_str(c, rev) ==
    LET time == c.time - 328
    IN  { IF ok
          THEN Accept(c, "$G3OCD", time, c.lock, rev, c.nav.seq, c.nav.nerr, "CRC")
          ELSE Reject(c, "G3OCD STRING ERROR", time, 0, 0)
          : ok \in test_CRC }

search_glo_L3OCD_str(c) ==
    Bind(sync_frame(c), LAMBDA rev :
        IF rev >= 0 THEN decode_glo_L3OCD_str(FrameSync(c, rev), rev)
        ELSE {FrameSync(c, rev)})

decode_G3OCD(c) ==
    Bind(sync_sec_code(c), LAMBDA s :
        IF ~s.ret THEN {s.c}
        ELSE IF s.c.nav.fsync > 0
        THEN IF s.c.lock >= s.c.nav.fsync + 3000 THEN search_glo_L3OCD_str(s.c)
             ELSE IF s.c.lock > s.c.nav.fsync + 6000
             THEN {[s.c EXCEPT !.nav.fsync = 0, !.nav.rev = 0]}
             ELSE {s.c}
        ELSE IF s.c.lock > s.c.nav.ssync + 6680 THEN search_glo_L3OCD_str(s.c)
        ELSE {s.c})

----------------------------------------------------------------------------
(* sdr_nav.py: Galileo                                                      *)

\* the first bits of the two decoded pages are 0 (even) and 1 (odd)
EvenOdd == BOOLEAN

decode_gal_INAV(c, rev) ==
    LET time == c.time - 4 * 510
    IN  UNION { IF ~pages THEN {Unsync(c, 0)}
                ELSE { IF ok
                       THEN Accept(c, "$INAV", time, c.lock, rev, seq, c.nav.nerr, "CRC")
                       ELSE Reject(c, "INAV FRAME ERROR", time, 0, 0)
                       : ok \in test_CRC, seq \in SeqIn }
                : pages \in EvenOdd }

decode_E1B(c) ==
    LET c1 == add_sym(c)
    IN  IF c1.nav.fsync > 0
        THEN IF c1.lock = c1.nav.fsync + 500
             THEN Bind(sync_frame(c1), LAMBDA rev :
                    IF rev = c1.nav.rev THEN decode_gal_INAV(FrameSync(c1, rev), rev)
                    ELSE {[FrameSync(c1, rev) EXCEPT !.nav.fsync = 0, !.nav.rev = 0]})
             ELSE {c1}
        ELSE IF c1.lock >= 510 + 250
        THEN Bind(sync_frame(c1), LAMBDA rev :
               IF rev >= 0 THEN decode_gal_INAV(FrameSync(c1, rev), rev)
               ELSE {FrameSync(c1, rev)})
        ELSE {c1}

decode_gal_FNAV(c, rev) ==
    LET time == c.time - 20 * 512
    IN  { IF ok
          THEN Accept(c, "$FNAV", time, c.lock, rev, seq, c.nav.nerr, "CRC")
          ELSE Reject(c, "FNAV FRAME ERROR", time, 0, 0)
          : ok \in test_CRC, seq \in SeqIn }

decode_E5AI(c) ==
    Bind(sync_sec_code(c), LAMBDA s :
        IF ~s.ret THEN {s.c}
        ELSE IF s.c.nav.fsync > 0
        THEN IF s.c.lock = s.c.nav.fsync + 10000
             THEN Bind(sync_frame(s.c), LAMBDA rev :
                    IF rev = s.c.nav.rev THEN decode_gal_FNAV(FrameSync(s.c, rev), rev)
                    ELSE {Unsync(FrameSync(s.c, rev), 0)})
             ELSE {s.c}
        ELSE IF s.c.lock >= s.c.N_sec * 512 + 250
        THEN Bind(sync_frame(s.c), LAMBDA rev :
               IF rev >= 0 THEN decode_gal_FNAV(FrameSync(s.c, rev), rev)
               ELSE {FrameSync(s.c, rev)})
        ELSE {s.c})

decode_E5BI(c) ==
    Bind(sync_sec_code(c), LAMBDA s :
        IF ~s.ret THEN {s.c}
        ELSE IF s.c.nav.fsync > 0
        THEN IF s.c.lock = s.c.nav.fsync + 2000
             THEN Bind(sync_frame(s.c), LAMBDA rev :
                    IF rev = s.c.nav.rev THEN decode_gal_INAV(FrameSync(s.c, rev), rev)
                    ELSE {Unsync(FrameSync(s.c, rev), 0)})
             ELSE {s.c}
        ELSE IF s.c.lock >= s.c.N_sec * 510 + 250
        THEN Bind(sync_frame(s.c), LAMBDA rev :
               IF rev >= 0 THEN decode_gal_INAV(FrameSync(s.c, rev), rev)
               ELSE {FrameSync(s.c, rev)})
        ELSE {s.c})

decode_gal_CNAV(c, rev) ==
    LET time == c.time - c.T * 1016
    IN  { IF ok
          THEN Accept(c, "$CNAV", time, c.lock, rev, c.nav.seq, c.nav.nerr, "CRC")
          ELSE Reject(c, "CNAV FRAME ERROR", time, 0, 0)
          : ok \in test_CRC }

decode_E6B(c) ==
    LET c1 == add_sym(c)
    IN  IF c1.nav.fsync > 0
        THEN IF c1.lock = c1.nav.fsync + 1000
             THEN Bind(sync_frame(c1), LAMBDA rev :
                    IF rev = c1.nav.rev THEN decode_gal_CNAV(FrameSync(c1, rev), rev)
                    ELSE {Unsync(FrameSync(c1, rev), 0)})
             ELSE {c1}
        ELSE IF c1.lock >= 1016 + 1000
        THEN Bind(sync_frame(c1), LAMBDA rev :
               IF rev >= 0 THEN decode_gal_CNAV(FrameSync(c1, rev), rev)
               ELSE {FrameSync(c1, rev)})
        ELSE {c1}

----------------------------------------------------------------------------
(* sdr_nav.py: BeiDou                                                       *)

\* decode_D1D2_BCH corrects the words and reports nothing: the subframe is
\* recorded without a test.
\* the log line is formatted with (time, type, ...): the tag takes the
\* time ("$D<time>NAV") and the time field of the line takes the type
decode_D1D2NAV(c, type, rev) ==
    LET time == c.time - c.T * c.N_sec * 311
    IN  { Log([c EXCEPT !.nav.ssync = c.lock, !.nav.fsync = c.lock,
                        !.nav.rev = rev,
                        !.nav.data = Append(@, NavData(c, time, "$DNAV", "none", c.nav.seq)),
                        !.nav.count[0] = @ + 1],
              <<"$D<time>NAV", type, c.sig, c.prn, "hex">>) }

decode_B1I_D1(c) ==
    Bind(sync_sec_code(c), LAMBDA s :
        IF ~s.ret THEN {s.c}
        ELSE IF s.c.nav.fsync > 0
        THEN IF s.c.lock = s.c.nav.fsync + 6000
             THEN Bind(sync_frame(s.c), LAMBDA rev :
                    IF rev = s.c.nav.rev THEN decode_D1D2NAV(FrameSync(s.c, rev), 1, rev)
                    ELSE {Unsync(FrameSync(s.c, rev), 0)})
             ELSE {s.c}
        ELSE IF s.c.lock >= s.c.N_sec * 311 + 1000
        THEN Bind(sync_frame(s.c), LAMBDA rev :
               IF rev >= 0 THEN decode_D1D2NAV(FrameSync(s.c, rev), 1, rev)
               ELSE {FrameSync(s.c, rev)})
        ELSE {s.c})

decode_B1I_D2(c) ==
    Bind(sync_symb(c, 2), LAMBDA s :
        IF ~s.ret THEN {s.c}
        ELSE IF s.c.nav.fsync > 0
        THEN IF s.c.lock = s.c.nav.fsync + 600
             THEN Bind(sync_frame(s.c), LAMBDA rev :
                    IF rev = s.c.nav.rev THEN decode_D1D2NAV(FrameSync(s.c, rev), 2, rev)
                    ELSE {Unsync(FrameSync(s.c, rev), 0)})
             ELSE {s.c}
        ELSE IF s.c.lock >= 2 * 311 + 1000
        THEN Bind(sync_frame(s.c), LAMBDA rev :
               IF rev >= 0 THEN decode_D1D2NAV(FrameSync(s.c, rev), 2, rev)
               ELSE {FrameSync(s.c, rev)})
        ELSE {s.c})

decode_B1I(c) ==
    IF c.prn >= 6 /\ c.prn <= 58 THEN decode_B1I_D1(c) ELSE decode_B1I_D2(c)

decode_B2I(c) == decode_B1I(c)

decode_B3I(c) == decode_B1I(c)

\* sync_BCNV1_frame: 1 normal, 0 reversed, -1 no sync
\* the value of soh in sync_BCNV1_frame after the tables are looked at: the
\* loop "for soh in range(200)" that builds BCNV1_SF1B leaves 199 in it
BCNV1_soh(c, soh) == IF "BCNV1_SF1B" \in c.glob THEN soh ELSE 199

sync_BCNV1_frame(c, syms, soh) == syms[BCNV1_soh(c, soh)]

decode_BCNV1(c, rev, soh) ==
    LET time == c.time - 18720
    IN  { LET d == FEC(FEC(Built(c, "GF_MUL"), "decode_LDPC", nerr1), "decode_LDPC", nerr2)
            IN  IF ok
                THEN Accept(d, "$BCNV1", time, c.lock, rev, soh, nerr1 + nerr2, "CRC")
                ELSE Reject(d, "BCNV1 FRAME ERROR", time, 0, 0)
          : ok \in test_CRC, nerr1 \in decode_LDPC, nerr2 \in decode_LDPC }

\* search and decode B-CNAV1 frame: for soh in range(200)
decode_B1CD_search(c, syms) ==
    LET cb(t) == IF t = 0 THEN c ELSE Built(c, "BCNV1_SF1B")
        hit(t) == sync_BCNV1_frame(cb(t), syms, t) >= 0
        n == IF \E t \in 0 .. 199 : hit(t)
             THEN CHOOSE t \in 0 .. 199 : hit(t) /\ \A u \in 0 .. t - 1 : ~hit(u)
             ELSE 199
        c1 == [Built(c, "BCNV1_SF1B")
                  EXCEPT !.tested = @ \o [k \in 1 .. n + 1 |-> BCNV1_soh(cb(k - 1), k - 1)]]
    IN  IF hit(n)
        THEN decode_BCNV1(MarkerSync(c1, sync_BCNV1_frame(cb(n), syms, n)),
                 sync_BCNV1_frame(cb(n), syms, n), n)
        ELSE {c1}

decode_B1CD(c) ==
    LET c1 == add_sym(c)
    IN  IF c1.nav.fsync > 0
        THEN IF c1.lock = c1.nav.fsync + 1800
             THEN UNION { LET soh == (c1.nav.seq + 1) % 200
                              c2 == Built(Test(Call(c1, "frame"), BCNV1_soh(c1, soh)),
                                          "BCNV1_SF1B")
                              rev == sync_BCNV1_frame(c1, syms, soh)
                          IN  IF rev = c1.nav.rev
                              THEN decode_BCNV1(MarkerSync(c2, rev), rev, soh)
                              ELSE {Unsync(c2, 0)}
                          : syms \in MarkerIn(200) }
             ELSE {c1}
        ELSE IF c1.lock >= 1872 + 100
        THEN UNION { decode_B1CD_search(Call(c1, "frame"), syms)
                     : syms \in MarkerIn(200) }
        ELSE {c1}

decode_BCNV2(c, rev) ==
    LET time == c.time - 3120
    IN  { LET d == FEC(Built(c, "GF_MUL"), "decode_LDPC", nerr)
            IN  IF ok
                THEN Accept(d, "$BCNV2", time, c.lock, rev, seq, nerr, "CRC")
                ELSE Reject(d, "BCNV2 FRAME ERROR", time, c.nav.ssync, 0)
          : ok \in test_CRC, nerr \in decode_LDPC, seq \in SeqIn }

decode_B2AD(c) ==
    Bind(sync_sec_code(c), LAMBDA s :
        IF ~s.ret THEN {s.c}
        ELSE IF s.c.nav.fsync > 0
        THEN IF s.c.lock >= s.c.nav.fsync + 3000
             THEN Bind(sync_frame(s.c), LAMBDA rev :
                    IF rev >= 0 THEN decode_BCNV2(FrameSync(s.c, rev), rev)
                    ELSE {FrameSync(s.c, rev)})
             ELSE IF s.c.lock > s.c.nav.fsync + 6000 THEN {Unsync(s.c, 0)}
             ELSE {s.c}
        ELSE IF s.c.lock >= s.c.N_sec * 624 + 1000
        THEN Bind(sync_frame(s.c), LAMBDA rev :
               IF rev >= 0 THEN decode_BCNV2(FrameSync(s.c, rev), rev)
               ELSE {FrameSync(s.c, rev)})
        ELSE {s.c})

decode_BCNV3(c, rev) ==
    LET time == c.time - 1220
    IN  { LET d == FEC(Built(c, "GF_MUL"), "decode_LDPC", nerr)
            IN  IF ok
                THEN Accept(d, "$BCNV3", time, c.lock, rev, seq, nerr, "CRC")
                ELSE Reject(d, "BCNV3 FRAME ERROR", time, c.nav.ssync, 0)
          : ok \in test_CRC, nerr \in decode_LDPC, seq \in SeqIn }

decode_B2BI(c) ==
    LET c1 == add_sym(c)
    IN  IF c1.nav.fsync > 0
        THEN IF c1.lock >= c1.nav.fsync + 1000
             THEN Bind(sync_frame(c1), LAMBDA rev :
                    IF rev >= 0 THEN decode_BCNV3(FrameSync(c1, rev), rev)
                    ELSE {FrameSync(c1, rev)})
             ELSE IF c1.lock > c1.nav.fsync + 2000 THEN {Unsync(c1, 0)}
             ELSE {c1}
        ELSE IF c1.lock >= 1022 + 1000
        THEN Bind(sync_frame(c1), LAMBDA rev :
               IF rev >= 0 THEN decode_BCNV3(FrameSync(c1, rev), rev)
               ELSE {FrameSync(c1, rev)})
        ELSE {c1}

----------------------------------------------------------------------------
(* sdr_nav.py: NavIC                                                        *)

\* sync_IRNV1_frame: 1 normal, 0 reversed, -1 no sync
sync_IRNV1_frame(c, syms, toi) == syms[toi]

decode_IRNV1(c, rev, toi) ==
    LET time == c.time - 18520
    IN  { LET d == FEC(FEC(c, "decode_LDPC", nerr1), "decode_LDPC", nerr2)
            IN  IF ok
                THEN Accept(d, "$IRNV1", time, c.lock, rev, toi, nerr1 + nerr2, "CRC")
                ELSE Reject(d, "IRNV1 FRAME ERROR", time, 0, c.nav.rev)
          : ok \in test_CRC, nerr1 \in decode_LDPC, nerr2 \in decode_LDPC }

\* search and decode NavIC L1-SPS NAV frame: for toi in range(400)
decode_I1SD_search(c, syms) ==
    LET hit(t) == sync_IRNV1_frame(c, syms, t) >= 0
        n == IF \E t \in 0 .. 399 : hit(t)
             THEN CHOOSE t \in 0 .. 399 : hit(t) /\ \A u \in 0 .. t - 1 : ~hit(u)
             ELSE 399
        c1 == [Built(c, "IRNV1_SF1") EXCEPT !.tested = @ \o [k \in 1 .. n + 1 |-> k - 1]]
    IN  IF hit(n)
        THEN decode_IRNV1(MarkerSync(c1, sync_IRNV1_frame(c1, syms, n)),
                 sync_IRNV1_frame(c1, syms, n), n)
        ELSE {c1}

decode_I1SD(c) ==
    LET c1 == add_sym(c)
    IN  IF c1.nav.fsync > 0
        THEN IF c1.lock = c1.nav.fsync + 1800
             THEN UNION { LET toi == (c1.nav.seq + 1) % 400
                              c2 == Built(Test(Call(c1, "frame"), toi), "IRNV1_SF1")
                              rev == sync_IRNV1_frame(c2, syms, toi)
                          IN  IF rev = c1.nav.rev
                              THEN decode_IRNV1(MarkerSync(c2, rev), rev, toi)
                              ELSE {Unsync(c2, 0)}
                          : syms \in MarkerIn(400) }
             ELSE {c1}
        ELSE IF c1.lock >= 1852 + 100
        THEN UNION { decode_I1SD_search(Call(c1, "frame"), syms)
                     : syms \in MarkerIn(400) }
        ELSE {c1}

decode_IRN_NAV(c, rev) ==
    LET time == c.time - 20 * 616
    IN  { IF ok
          THEN Accept(c, "$IRNAV", time, c.lock, rev, seq, c.nav.nerr, "CRC")
          ELSE Reject(c, "IRNAV FRAME ERROR", time, 0, c.nav.rev)
          : ok \in test_CRC, seq \in SeqIn }

decode_I5S(c) ==
    Bind(sync_symb(c, 20), LAMBDA s :
        IF ~s.ret THEN {s.c}
        ELSE IF s.c.nav.fsync > 0
        THEN IF s.c.lock = s.c.nav.fsync + 12000
             THEN Bind(sync_frame(s.c), LAMBDA rev :
                    IF rev = s.c.nav.rev THEN decode_IRN_NAV(FrameSync(s.c, rev), rev)
                    ELSE {Unsync(FrameSync(s.c, rev), 0)})
             ELSE {s.c}
        ELSE IF s.c.lock >= 20 * 616 + 1000
        THEN Bind(sync_frame(s.c), LAMBDA rev :
               IF rev >= 0 THEN decode_IRN_NAV(FrameSync(s.c, rev), rev)
               ELSE {FrameSync(s.c, rev)})
        ELSE {s.c})

decode_ISS(c) == decode_I5S(c)

----------------------------------------------------------------------------
(* sdr_nav.py: nav_decode                                                   *)

nav_decode(c) ==
    CASE c.sig = "L1CA" -> decode_L1CA(c)
      [] c.sig = "L1S" -> decode_L1S(c)
      [] c.sig = "L1CB" -> decode_L1CB(c)
      [] c.sig = "L1CD" -> decode_L1CD(c)
      [] c.sig = "L2CM" -> decode_L2CM(c)
      [] c.sig = "L5I" -> decode_L5I(c)
      [] c.sig = "L6D" -> decode_L6D(c)
      [] c.sig = "L6E" -> decode_L6E(c)
      [] c.sig = "L5SI" -> decode_L5SI(c)
      [] c.sig = "L5SIV" -> decode_L5SIV(c)
      [] c.sig = "G1CA" -> decode_G1CA(c)
      [] c.sig = "G2CA" -> decode_G2CA(c)
      [] c.sig = "G3OCD" -> decode_G3OCD(c)
      [] c.sig = "E1B" -> decode_E1B(c)
      [] c.sig = "E5AI" -> decode_E5AI(c)
      [] c.sig = "E5BI" -> decode_E5BI(c)
      [] c.sig = "E6B" -> decode_E6B(c)
      [] c.sig = "B1I" -> decode_B1I(c)
      [] c.sig = "B1CD" -> decode_B1CD(c)
      [] c.sig = "B2I" -> decode_B2I(c)
      [] c.sig = "B2AD" -> decode_B2AD(c)
      [] c.sig = "B2BI" -> decode_B2BI(c)
      [] c.sig = "B3I" -> decode_B3I(c)
      [] c.sig = "I1SD" -> decode_I1SD(c)
      [] c.sig = "I5S" -> decode_I5S(c)
      [] c.sig = "ISS" -> decode_ISS(c)
      [] OTHER -> {c}

----------------------------------------------------------------------------
(* sdr_ch.py: track_sig and ch_update.  Both return the set of              *)
(* [a, b, c]: c is the channel the call leaves, a and b are the channel     *)
(* just before and just after the nav_decode step (a = b = c without it).   *)

\* signal_lost without "ch.lost += 1"
signal_lost_no_count(c) ==
    IF c.cn0 < THRES_CN0_LOST
    THEN Log([c EXCEPT !.state = "IDLE"], LogCN0(c, c.time, "SIGNAL LOST", c.cn0))
    ELSE c

\* the end of track_sig: signal lost
signal_lost(c) ==
    IF c.cn0 < THRES_CN0_LOST
    THEN Log([c EXCEPT !.state = "IDLE", !.lost = @ + 1],
             LogCN0(c, c.time, "SIGNAL LOST", c.cn0))
    ELSE c

\* the exception an update ends with, kept with the calls it made
Raise(c, exc) == Call(c, "raise " \o exc)

Raised(c) == "raise ValueError" \in c.calls

\* track_sig that decodes navigation data from the first epoch on
track_sig_decode_early(c, time) ==
    LET c1 == [c EXCEPT !.adr = "trk", !.time = time,
                        !.coff = IF @ = "nan" THEN "nan" ELSE "trk"]
        c2(C) == IF c1.sig = "L6D" \/ c1.sig = "L6E" THEN CSK(c1, C)
                 ELSE [c1 EXCEPT !.trk.C = C]
        c3(C) == [c2(C) EXCEPT !.trk.P = "hist", !.lock = @ + 1]
        sec == UNION { IF c3(C).N_sec >= 2 /\ c3(C).lock * c3(C).T >= T_NPULLIN
                       THEN ch_sync_sec_code(c3(C), c3(C).N_sec) ELSE {c3(C)}
                       : C \in CorrIn(c) }
        loops(d) == CN0(DLL(IF d.lock * d.T <= T_FPULLIN THEN FLL(d) ELSE PLL(d)))
        nav(d) == { [a |-> d, b |-> e] : e \in nav_decode(Call(d, "nav_decode")) }
    IN  IF c1.coff = "nan"
        THEN LET r == Raise(c1, "ValueError") IN {[a |-> r, b |-> r, c |-> r]}
        ELSE { [a |-> m.a, b |-> m.b, c |-> signal_lost(m.b)]
               : m \in Bind(Bind(sec, loops), nav) }

\* "i = int(ch.coff * ch.fs + 0.5) % ch.N" raises ValueError (cannot convert
\* float NaN to integer) when ch.coff is NaN
track_sig(c, time) ==
    LET c1 == [c EXCEPT !.adr = "trk", !.time = time,
                        !.coff = IF @ = "nan" THEN "nan" ELSE "trk"]
        c2(C) == IF c1.sig = "L6D" \/ c1.sig = "L6E" THEN CSK(c1, C)
                 ELSE [c1 EXCEPT !.trk.C = C]
        c3(C) == [c2(C) EXCEPT !.trk.P = "hist", !.lock = @ + 1]
        sec == UNION { IF c3(C).N_sec >= 2 /\ c3(C).lock * c3(C).T >= T_NPULLIN
                       THEN ch_sync_sec_code(c3(C), c3(C).N_sec) ELSE {c3(C)}
                       : C \in CorrIn(c) }
        loops(d) == CN0(DLL(IF d.lock * d.T <= T_FPULLIN THEN FLL(d) ELSE PLL(d)))
        nav(d) == IF d.lock * d.T >= T_NPULLIN
                  THEN { [a |-> d, b |-> e] : e \in nav_decode(Call(d, "nav_decode")) }
                  ELSE {[a |-> d, b |-> d]}
    IN  IF c1.coff = "nan"
        THEN LET r == Raise(c1, "ValueError") IN {[a |-> r, b |-> r, c |-> r]}
        ELSE { [a |-> m.a, b |-> m.b, c |-> signal_lost(m.b)]
               : m \in Bind(Bind(sec, loops), nav) }

\* ch_update that searches in every state but LOCK
ch_update_idle_search(c, time) ==
    LET c0 == [c EXCEPT !.log = <<>>, !.calls = {}, !.tested = <<>>]
    IN  IF c0.state = "LOCK"
        THEN track_sig(Call(c0, "track_sig"), time)
        ELSE { [a |-> d, b |-> d, c |-> d]
               : d \in search_sig(Call(c0, "search_sig"), time) }

ch_update(c, time) ==
    LET c0 == [c EXCEPT !.log = <<>>, !.calls = {}, !.tested = <<>>]
    IN  IF c0.state = "SRCH"
        THEN { [a |-> d, b |-> d, c |-> d]
               : d \in search_sig(Call(c0, "search_sig"), time) }
        ELSE IF c0.state = "LOCK"
        THEN track_sig(Call(c0, "track_sig"), time)
        ELSE LET d == [c0 EXCEPT !.time = time]
             IN  {[a |-> d, b |-> d, c |-> d]}

----------------------------------------------------------------------------
(* pocket_trk.py: the channel loop                                          *)

\* the channels after construction: ch_new, then state = 'SRCH'
Channels(sig) ==
    [j \in 0 .. Len(Prns(sig)) - 1 |->
        [ch_new(sig, Prns(sig)[j + 1]) EXCEPT !.state = "SRCH"]]

\* code cycles in the file: two frames of the signal and Horizon more
FileLen(sig) ==
    FirstFrame(sig) + FramePhase + (MaxData - 1) * FramePeriod(sig) + Horizon

\* the counters the model follows up to their bounds
Bounded(c) ==
    /\ c.lost <= MaxLost
    /\ c.nav.count[0] <= MaxData
    /\ c.nav.count[1] <= MaxErr

\* T of the receiver: the code cycle of its signal
T == ch[0].T

NCh == Cardinality(DOMAIN ch)

\* no library function has been called on its own
NoCall == [op |-> "none"]

Init ==
    /\ \E sig \in Sigs : ch = Channels(sig) /\ iend = FileLen(sig)
    /\ i = 1
    /\ ix = 0
    /\ pc = "update"
    /\ jx = 0
    /\ nloss = [j \in DOMAIN ch |-> 0]
    /\ pre = [j |-> 0, c |-> ch[0], op |-> "new"]
    /\ mid = [a |-> ch[0], b |-> ch[0]]
    /\ call = NoCall
    /\ tables = {}

\* sdr_ch.ch_update(ch[j], time_rcv, buff, ...) for the next j
ChUpdate ==
    /\ pc = "update"
    /\ \E r \in ch_update([ch[jx] EXCEPT !.glob = tables], T * (i - 1)) :
          /\ Bounded(r.c)
          /\ ch' = [ch EXCEPT ![jx] = [r.c EXCEPT !.glob = {}]]
          /\ tables' = r.c.glob
          /\ mid' = [a |-> r.a, b |-> r.b]
          /\ nloss' = IF ch[jx].state = "LOCK" /\ r.c.state = "IDLE"
                      THEN [nloss EXCEPT ![jx] = @ + 1] ELSE nloss
    /\ pre' = [j |-> jx, c |-> ch[jx],
               op |-> IF Raised(ch'[jx]) THEN "raise" ELSE "update"]
    /\ jx' = IF jx + 1 < NCh THEN jx + 1 ELSE 0
    /\ pc' = IF Raised(ch'[jx]) THEN "raised"
             ELSE IF jx + 1 < NCh THEN "update" ELSE "srch"
    /\ UNCHANGED <<i, ix, iend, call>>

\* the round robin that tests the channel ix first
RoundRobin_from_ix(k) ==
    IF \E n \in 0 .. k - 1 : ch[(ix + n) % NCh].state = "IDLE"
    THEN (ix + CHOOSE n \in 0 .. k - 1 :
                 /\ ch[(ix + n) % NCh].state = "IDLE"
                 /\ \A m \in 0 .. n - 1 : ch[(ix + m) % NCh].state # "IDLE") % NCh
    ELSE (ix + k) % NCh

\* the index of the channel the round robin stops at, from ix, after k tries
RoundRobin(k) ==
    IF \E n \in 1 .. k : ch[(ix + n) % NCh].state = "IDLE"
    THEN (ix + CHOOSE n \in 1 .. k :
                 /\ ch[(ix + n) % NCh].state = "IDLE"
                 /\ \A m \in 1 .. n - 1 : ch[(ix + m) % NCh].state # "IDLE") % NCh
    ELSE (ix + k) % NCh

\* SrchCycle in every cycle
SrchCycle_every ==
    /\ pc = "srch"
    /\ i < iend
    /\ LET n == RoundRobin(NCh)
       IN  /\ ix' = n
           /\ IF ch[n].state = "IDLE"
              THEN /\ ch' = [ch EXCEPT ![n].state = "SRCH"]
                   /\ pre' = [j |-> n, c |-> ch[n], op |-> "rearm"]
              ELSE UNCHANGED <<ch, pre>>
    /\ i' = i + 1
    /\ pc' = "update"
    /\ UNCHANGED <<jx, iend, nloss, mid, call, tables>>

\* update receiver channel state: every int(CYC_SRCH / T) cycles
SrchCycle ==
    /\ pc = "srch"
    /\ i < iend
    /\ i % (CYC_SRCH \div T) = 0
    /\ LET n == RoundRobin(NCh)
       IN  /\ ix' = n
           /\ IF ch[n].state = "IDLE"
              THEN /\ ch' = [ch EXCEPT ![n].state = "SRCH"]
                   /\ pre' = [j |-> n, c |-> ch[n], op |-> "rearm"]
              ELSE UNCHANGED <<ch, pre>>
    /\ i' = i + 1
    /\ pc' = "update"
    /\ UNCHANGED <<jx, iend, nloss, mid, call, tables>>

\* the other cycles
NextEpoch ==
    /\ pc = "srch"
    /\ i < iend
    /\ i % (CYC_SRCH \div T) # 0
    /\ i' = i + 1
    /\ pc' = "update"
    /\ UNCHANGED <<ch, ix, jx, iend, nloss, pre, mid, call, tables>>

Next == ChUpdate \/ SrchCycle \/ NextEpoch

Spec == Init /\ [][Next]_vars

----------------------------------------------------------------------------
(* Lock episodes of every signal, resumed near the epochs of a frame.       *)
(* The first frame test of a signal comes thousands of cycles after the     *)
(* signal is found, the next one a frame later.  For the signals other      *)
(* than Sigs the cycles between are skipped: a receiver starts with its     *)
(* channel a few cycles before a frame test, in the state the skipped       *)
(* cycles leave when symbol and secondary code sync are kept.               *)

\* signal and PRN of the receivers
NavSigs ==
    {<<"L1CA", 1>>, <<"L1CA", 120>>, <<"L1S", 184>>, <<"L1CB", 203>>,
     <<"L1CD", 1>>, <<"L5I", 1>>, <<"L5I", 120>>, <<"L5SI", 184>>,
     <<"L5SIV", 184>>, <<"L6E", 203>>, <<"G1CA", 1>>, <<"G2CA", 1>>,
     <<"G3OCD", 1>>, <<"E1B", 1>>, <<"E5AI", 1>>, <<"E5BI", 1>>, <<"E6B", 1>>,
     <<"B1I", 1>>, <<"B1I", 6>>, <<"B1CD", 19>>, <<"B2I", 6>>, <<"B2AD", 19>>,
     <<"B2BI", 19>>, <<"B3I", 6>>, <<"I1SD", 1>>, <<"I5S", 1>>, <<"ISS", 1>>}

\* the frame format nav_decode looks for in the signal of c
FrameType(c) ==
    LET sbas == c.prn >= 120 /\ c.prn <= 158
        geo == ~(c.prn >= 6 /\ c.prn <= 58)
    IN  CASE c.sig \in {"L1CA", "L1CB"} -> IF sbas THEN "SBAS" ELSE "LNAV"
          [] c.sig \in {"L1S", "L5SI"} -> "SBAS"
          [] c.sig = "L1CD" -> "CNV2"
          [] c.sig = "L2CM" -> "CNAV_L2"
          [] c.sig = "L5I" -> IF sbas THEN "SBAS_L5" ELSE "CNAV"
          [] c.sig = "L5SIV" -> "SBAS_L5"
          [] c.sig \in {"L6D", "L6E"} -> "L6FRM"
          [] c.sig \in {"G1CA", "G2CA"} -> "GSTR"
          [] c.sig = "G3OCD" -> "G3OCD"
          [] c.sig = "E1B" -> "INAV_E1"
          [] c.sig = "E5AI" -> "FNAV"
          [] c.sig = "E5BI" -> "INAV_E5"
          [] c.sig = "E6B" -> "CNAV_E6"
          [] c.sig \in {"B1I", "B2I", "B3I"} -> IF geo THEN "D2NAV" ELSE "D1NAV"
          [] c.sig = "B1CD" -> "BCNV1"
          [] c.sig = "B2AD" -> "BCNV2"
          [] c.sig = "B2BI" -> "BCNV3"
          [] c.sig = "I1SD" -> "IRNV1"
          [] c.sig \in {"I5S", "ISS"} -> "IRNAV"

\* the first lock count at which the decoder tests a frame without frame sync
\* (L6: nav_decode is not called before the pull-in time T_NPULLIN)
FirstTest(c) ==
    LET f == FrameType(c)
    IN  CASE f = "LNAV" -> 20 * 308 + 1000
          [] f = "SBAS" -> 1088 + 1000 + 1
          [] f = "CNV2" -> 1852 + 100
          [] f = "CNAV_L2" -> 644 + 50 + 1
          [] f = "CNAV" -> 6440 + 1000 + 1
          [] f = "SBAS_L5" -> 3093 + 1000
          [] f = "L6FRM" -> Max(255, T_NPULLIN \div c.T)
          [] f = "GSTR" -> 2300 + 2000
          [] f = "G3OCD" -> 6680 + 1
          [] f = "INAV_E1" -> 510 + 250
          [] f = "FNAV" -> c.N_sec * 512 + 250
          [] f = "INAV_E5" -> c.N_sec * 510 + 250
          [] f = "CNAV_E6" -> 1016 + 1000
          [] f = "D1NAV" -> c.N_sec * 311 + 1000
          [] f = "D2NAV" -> 2 * 311 + 1000
          [] f = "BCNV1" -> 1872 + 100
          [] f = "BCNV2" -> c.N_sec * 624 + 1000
          [] f = "BCNV3" -> 1022 + 1000
          [] f = "IRNV1" -> 1852 + 100
          [] f = "IRNAV" -> 20 * 616 + 1000

\* the frame period of the signal of c in lock counts
FrameCycle(c) ==
    LET f == FrameType(c)
    IN  CASE f \in {"LNAV", "CNAV", "D1NAV"} -> 6000
          [] f \in {"SBAS", "SBAS_L5", "CNAV_E6", "BCNV3"} -> 1000
          [] f \in {"CNV2", "BCNV1", "IRNV1"} -> 1800
          [] f \in {"CNAV_L2", "D2NAV"} -> 600
          [] f = "L6FRM" -> 250
          [] f \in {"GSTR", "INAV_E5"} -> 2000
          [] f \in {"G3OCD", "BCNV2"} -> 3000
          [] f = "INAV_E1" -> 500
          [] f = "FNAV" -> 10000
          [] f = "IRNAV" -> 12000

\* the symbol length N the decoder gives to sync_symb (0: it does not call it)
SymbLen(c) ==
    LET f == FrameType(c)
    IN  CASE f \in {"LNAV", "IRNAV"} -> 20
          [] f = "GSTR" -> 10
          [] f \in {"SBAS", "D2NAV"} -> 2
          [] OTHER -> 0

\* search updates before the decision
NAcq(c) == (T_ACQ + c.T - 1) \div c.T

\* the channels pocket_trk leaves when the signal is found at the first try
RECURSIVE Acquired(_, _)
Acquired(c, time) ==
    UNION { IF r.c.state = "SRCH" THEN Acquired(r.c, time + c.T)
            ELSE IF r.c.state = "LOCK" THEN {r.c} ELSE {}
            : r \in ch_update(c, time) }

\* the channel n cycles into the episode: the fields every track_sig writes
Tracked(c, n) ==
    [c EXCEPT !.lock = n, !.time = c.T * (NAcq(c) + n - 1),
              !.fd = "trk", !.coff = "trk", !.adr = "trk",
              !.trk.C = "corr", !.trk.P = "hist", !.trk.err_phas = "err",
              !.trk.sumP = "acc", !.trk.sumN = "acc",
              !.trk.sumE = "acc", !.trk.sumL = "acc",
              !.nav.syms = "sym", !.log = <<>>, !.calls = {}, !.tested = <<>>]

\* symbol sync and secondary code sync that make lock count n a symbol end
SyncAt(c, n) ==
    [c EXCEPT !.nav.ssync = IF SymbLen(c) > 0 THEN n - SymbLen(c) ELSE @,
              !.trk.sec_sync = IF c.N_sec >= 2 THEN n - c.N_sec ELSE @,
              !.trk.sec_pol = IF c.N_sec >= 2 THEN 1 ELSE @,
              !.trk.wiped = IF c.N_sec >= 2 THEN c.N_sec - 1 ELSE @]

\* two cycles before the first frame test
Unsynced(sig, prn) ==
    { SyncAt(Tracked(b, FirstTest(b) - 2), FirstTest(b))
      : b \in Acquired([ch_new(sig, prn) EXCEPT !.state = "SRCH"], 0) }

\* after a frame validated by the first test: one cycle later and two cycles
\* before the next frame
Synced(sig, prn) ==
    UNION { LET L == FirstTest(u)
                t == Tracked(u, L - 1)
            IN  { Tracked(r.c, n)
                  : r \in { q \in track_sig(t, t.time + t.T) :
                              q.c.state = "LOCK" /\ q.c.nav.count[0] = 1 },
                    n \in {L + 1, L + FrameCycle(u) - 2} }
            : u \in Unsynced(sig, prn) }

\* receivers of two channels of one signal that is found by both in the
\* first search: signal and the two PRNs
NavPairs == {<<"B1CD", 19, 20>>}

\* the frame formats whose decoder tests a frame in every symbol epoch with
\* lock >= fsync + P
SearchedFrames ==
    {"SBAS", "SBAS_L5", "CNAV_L2", "CNAV", "GSTR", "G3OCD", "BCNV2", "BCNV3"}

\* after a frame validated by the first test and no frame found since: one
\* cycle before two frame periods have passed
Overdue(sig, prn) ==
    UNION { LET L == FirstTest(u)
                t == Tracked(u, L - 1)
            IN  { Tracked(r.c, L + 2 * FrameCycle(u) - 1)
                  : r \in { q \in track_sig(t, t.time + t.T) :
                              /\ q.c.state = "LOCK" /\ q.c.nav.count[0] = 1
                              /\ FrameType(q.c) \in SearchedFrames } }
            : u \in Unsynced(sig, prn) }

Resumed ==
    UNION { Unsynced(s[1], s[2]) \cup Synced(s[1], s[2]) \cup Overdue(s[1], s[2])
            : s \in NavSigs }

InitNav ==
    \/ Init
    \/ /\ \/ \E c \in Resumed :
                /\ ch = [j \in {0} |-> [c EXCEPT !.glob = {}]]
                /\ tables = c.glob
                /\ i = NAcq(c) + c.lock + 1
                /\ iend = NAcq(c) + c.lock + 1 + ResumeLen
          \/ \E s \in NavPairs :
                \E c0 \in Unsynced(s[1], s[2]), c1 \in Unsynced(s[1], s[3]) :
                   /\ ch = [j \in {0, 1} |-> IF j = 0 THEN c0 ELSE c1]
                   /\ tables = {}
                   /\ i = NAcq(c0) + c0.lock + 1
                   /\ iend = NAcq(c0) + c0.lock + 1 + ResumeLen
       /\ ix = 0
       /\ pc = "update"
       /\ jx = 0
       /\ nloss = [j \in DOMAIN ch |-> 0]
       /\ pre = [j |-> 0, c |-> ch[0], op |-> "new"]
       /\ mid = [a |-> ch[0], b |-> ch[0]]
       /\ call = NoCall

SpecNav == InitNav /\ [][Next]_vars

----------------------------------------------------------------------------
(* Properties.  Now is the channel the latest operation was applied to, Was *)
(* is that channel before the operation.                                    *)

Now == ch[pre.j]

Was == pre.c

Updated == pre.op = "update"

Rearmed == pre.op = "rearm"

\* int(CYC_SRCH / T)
NCYC == CYC_SRCH \div T

\* C1, as the code has it: a channel is in one of three states.  ch_update
\* runs the acquisition iff the channel is in SRCH and the tracking iff it is
\* in LOCK; in IDLE it runs neither and changes nothing but ch.time.  A
\* search leaves the tracking and navigation sub-state alone unless it
\* starts tracking, and tracking leaves the acquisition sub-state alone.
C1_ActiveByState ==
    /\ \A j \in DOMAIN ch : ch[j].state \in {"SRCH", "LOCK", "IDLE"}
    /\ Updated =>
         /\ ("search_sig" \in Now.calls) <=> (Was.state = "SRCH")
         /\ ("track_sig" \in Now.calls) <=> (Was.state = "LOCK")
         /\ Was.state = "IDLE" =>
               Now = [Was EXCEPT !.time = Now.time, !.log = <<>>, !.calls = {},
                                !.tested = <<>>]
         /\ Was.state = "SRCH" /\ Now.state # "LOCK" =>
               Now.trk = Was.trk /\ Now.nav = Was.nav
         /\ Was.state = "LOCK" => Now.acq = Was.acq

\* C1, as stated: in every reachable state exactly one of acquisition
\* (state SRCH) and tracking (state LOCK) is active, never neither.
C1_ExactlyOneActive ==
    \A j \in DOMAIN ch : ch[j].state = "SRCH" \/ ch[j].state = "LOCK"

\* a channel that lost its signal is updated in IDLE and stays there
C1_Witness ==
    Updated /\ Was.state = "IDLE" /\ Now.state = "IDLE" /\ Now.lost = 1

\* C2: ch.lock is 0 right after every SRCH -> LOCK transition, and every
\* ch_update of a channel in LOCK adds exactly 1 to it.
C2_LockCount ==
    Updated =>
      /\ Was.state = "SRCH" /\ Now.state = "LOCK" => Now.lock = 0
      /\ Was.state = "LOCK" => Now.lock = Was.lock + 1

\* a second lock episode starts: the lock count of the first one is reset
C2_Witness ==
    Updated /\ Was.state = "SRCH" /\ Now.state = "LOCK" /\ Was.lock > 0

\* C3, as the code has it: the re-arm of an IDLE channel sets ch.state only.
\* The acquisition sub-state is fresh (search_sig reset it at the decision);
\* the tracking and navigation sub-state stay as the last episode left them
\* until start_track resets them, and nav.nerr, nav.count and nav.data are
\* never reset.
C3_RearmKeepsTrkNav ==
    /\ Rearmed =>
         /\ Was.state = "IDLE" /\ Now.state = "SRCH"
         /\ Now.acq = acq_new
         /\ Now.trk = Was.trk /\ Now.nav = Was.nav
    /\ Updated /\ Was.state = "SRCH" /\ Now.state = "LOCK" =>
         /\ Now.trk = trk_new
         /\ Now.nav = [nav_new EXCEPT !.nerr = Was.nav.nerr,
                                      !.count = Was.nav.count,
                                      !.data = Was.nav.data]

\* C3, as stated: a channel taken to IDLE and re-armed to SRCH has the
\* acquisition, tracking and navigation sub-state of a channel from ch_new.
C3_RearmIsFresh ==
    Rearmed => Now.acq = acq_new /\ Now.trk = trk_new /\ Now.nav = nav_new

\* a channel that recorded a frame and lost its signal is re-armed
C3_Witness ==
    Rearmed /\ Now.nav.count[0] > 0 /\ Now.trk.P # "0" /\ Now.lost = 1

\* C4: a channel in SRCH has not yet integrated 10 ms.  An update that
\* completes the 10 ms decides: LOCK iff the C/N0 of the peak is >= 35,
\* IDLE otherwise, and the accumulator is reset; any other update adds one
\* power surface and stays in SRCH.
C4_SearchDecision ==
    Updated /\ Was.state = "SRCH" =>
      /\ Was.acq.n_sum * Was.T < 10
      /\ IF (Was.acq.n_sum + 1) * Was.T >= 10
         THEN /\ Now.state \in {"LOCK", "IDLE"}
              /\ Now.acq = acq_new
              /\ Len(Now.log) = 1
              /\ (Now.state = "LOCK") <=> (Now.log[1][6] >= 35)
         ELSE /\ Now.state = "SRCH"
              /\ Now.acq.n_sum = Was.acq.n_sum + 1
              /\ Now.acq.P_sum = "acc"

\* the third update of a search with a 4 ms code decides, 1 dB short
C4_Witness ==
    /\ Updated /\ Was.state = "SRCH" /\ Was.acq.n_sum = 2 /\ Now.state = "IDLE"
    /\ Len(Now.log) = 1 /\ Now.log[1][6] = 34

\* C5: a tracking update ends in IDLE with ch.lost one higher if the
\* smoothed C/N0 is below 32, and in LOCK with ch.lost unchanged otherwise.
\* No other operation changes ch.lost: it counts the LOCK -> IDLE
\* transitions of the channel.
C5_LostCount ==
    /\ Updated =>
         IF Was.state = "LOCK"
         THEN IF Now.cn0 < 32
              THEN Now.state = "IDLE" /\ Now.lost = Was.lost + 1
              ELSE Now.state = "LOCK" /\ Now.lost = Was.lost
         ELSE Now.lost = Was.lost
    /\ Rearmed => Now.lost = Was.lost
    /\ \A j \in DOMAIN ch : ch[j].lost = nloss[j]

\* a tracking update finds the smoothed C/N0 under 32
C5_Witness ==
    Updated /\ Was.state = "LOCK" /\ Was.cn0 >= 32 /\ Now.cn0 < 32 /\ Now.lost = 1

\* C6, as the code has it: an acquisition miss puts the channel in IDLE and
\* changes neither ch.lost nor the navigation sub-state.  The re-arm is not
\* random: it is made only at the end of a cycle i with i mod int(CYC_SRCH/T)
\* = 0, and at every such cycle that leaves a channel in IDLE.
C6_MissThenCycleRearm ==
    /\ Updated /\ Was.state = "SRCH" /\ Now.state = "IDLE" =>
         Now.lost = Was.lost /\ Now.nav = Was.nav
    /\ Rearmed =>
         (i - 1) % NCYC = 0 /\ Was.state = "IDLE" /\ Now.state = "SRCH" /\ ix = pre.j
    /\ pc = "update" /\ jx = 0 /\ i > 1 =>
         IF (i - 1) % NCYC = 0
         THEN Rearmed \/ \A j \in DOMAIN ch : ch[j].state # "IDLE"
         ELSE ~Rearmed

\* the end of a cycle re-arms a channel / leaves every channel as it is
RearmStep == (SrchCycle \/ NextEpoch) /\ ch' # ch

WaitStep == (SrchCycle \/ NextEpoch) /\ ch' = ch

\* C6, as stated: the epoch of the re-arm is random.  While a channel is in
\* IDLE the end of a cycle may re-arm a channel and may as well leave the
\* channels waiting.
C6_RandomizedRearm ==
    pc = "srch" /\ i < iend /\ (\E j \in DOMAIN ch : ch[j].state = "IDLE") =>
        ENABLED RearmStep /\ ENABLED WaitStep

\* a channel that never found its signal is re-armed after a miss
C6_Witness ==
    Rearmed /\ Was.lost = 0 /\ Was.cn0 = 0 /\ Now.nav = nav_new /\ i > NCYC + 1

\* the texts nav_decode logs when a frame fails its check
FrameErrors ==
    {"LNAV PARITY ERROR", "SBAS FRAME ERROR", "CNV2 FRAME ERROR",
     "CNAV FRAME ERROR", "L6FRM RS ERROR", "GSTR HAMMING ERROR",
     "G3OCD STRING ERROR", "INAV FRAME ERROR", "FNAV FRAME ERROR",
     "BCNV1 FRAME ERROR", "BCNV2 FRAME ERROR", "BCNV3 FRAME ERROR",
     "IRNV1 FRAME ERROR", "IRNAV FRAME ERROR"}

\* the latest nav_decode rejected a frame
FrameError ==
    \E k \in DOMAIN mid.b.log :
        mid.b.log[k][1] = "$LOG" /\ mid.b.log[k][5] \in FrameErrors

\* the latest nav_decode appended a record to nav.data
Recorded == Len(mid.b.nav.data) > Len(mid.a.nav.data)

C8_FECFailureRejected ==
    "FEC -1" \in mid.b.calls =>
      /\ mid.b.nav.data = mid.a.nav.data
      /\ mid.b.nav.count[0] = mid.a.nav.count[0]
      /\ mid.b.nav.count[1] = mid.a.nav.count[1] + 1
      /\ mid.b.nav.fsync = 0

\* an LDPC decoder returned -1 and the frame was recorded all the same
C8_Witness ==
    /\ "FEC -1" \in mid.b.calls /\ "decode_LDPC" \in mid.b.calls
    /\ Recorded /\ mid.b.nav.fsync = mid.b.lock

\* C9, as stated: a record is appended to nav.data only if the frame passed
\* the integrity check of its signal in the same nav_decode call.
C9_RecordsChecked ==
    Recorded => mid.b.nav.data[Len(mid.b.nav.data)].check # "none"

\* a BeiDou D1/D2 subframe is recorded with no check made on it
C9_Witness ==
    /\ Recorded /\ mid.b.sig \in {"B1I", "B2I", "B3I"}
    /\ mid.b.nav.data[Len(mid.b.nav.data)].check = "none"

\* C10: a recorded frame sets nav.fsync to the lock count of its epoch.
\* While nav.fsync = L > 0 no frame sync test or decode is made in an epoch
\* with lock < L + P, P the frame period of the signal in epochs, and
\* nav.fsync stays L in the epochs that make none; so two records of one
\* lock episode are at least P epochs apart.
C10_FramePeriod ==
    /\ "frame" \in mid.b.calls /\ mid.a.nav.fsync > 0 =>
          mid.a.lock >= mid.a.nav.fsync + FrameCycle(mid.a)
    /\ Recorded => mid.b.nav.fsync = mid.b.lock
    /\ Updated /\ Was.state = "LOCK" /\ "frame" \notin mid.b.calls =>
          mid.b.nav.fsync = Was.nav.fsync
    /\ \A j \in DOMAIN ch : \A k \in DOMAIN ch[j].nav.data :
          LET d == ch[j].nav.data IN
          k > 1 /\ d[k].episode = d[k - 1].episode =>
              d[k].lock - d[k - 1].lock >= FrameCycle(ch[j])

\* an L6D channel records two frames in a row, 250 epochs apart
C10_Witness ==
    /\ Updated /\ Recorded /\ mid.b.sig = "L6D" /\ Len(mid.b.nav.data) = 2
    /\ mid.b.nav.data[2].lock = mid.b.nav.data[1].lock + 250
    /\ mid.b.nav.data[2].episode = mid.b.nav.data[1].episode

\* the cycle of the frame marker counter (TOI, SOH) of a marker-framed signal
MarkerCycle(c) == IF c.sig = "B1CD" THEN 200 ELSE 400

\* C11: for L1CD, I1SD (cycle 400) and B1CD (cycle 200): a frame test made
\* in frame sync with nav.seq = t tests the one hypothesis (t + 1) mod cycle,
\* and a frame it records carries that counter, one more than the counter of
\* the frame before it.  A frame test made without frame sync tests the
\* hypotheses 0, 1, 2, ... in this order and stops at the one it decodes
\* (the first one matched; for L1CD matched with the polarity the WN MSB
\* confirms): at most one frame is decoded, with nav.seq the last
\* hypothesis tested, and all the cycle is tested when none is decoded.
C11_MarkerSequence ==
    LET a == mid.a
        b == mid.b
        n == MarkerCycle(b)
        d == b.nav.data
    IN  Updated /\ b.sig \in {"L1CD", "I1SD", "B1CD"} /\ "frame" \in b.calls =>
          IF a.nav.fsync > 0
          THEN /\ b.tested = <<(a.nav.seq + 1) % n>>
               /\ Recorded =>
                    /\ b.nav.seq = (a.nav.seq + 1) % n
                    /\ d[Len(d)].seq = b.nav.seq
                    /\ Len(d) > 1 /\ d[Len(d) - 1].episode = d[Len(d)].episode =>
                          d[Len(d)].seq = (d[Len(d) - 1].seq + 1) % n
               /\ ~Recorded => b.nav.seq = a.nav.seq
          ELSE /\ Len(b.tested) \in 1 .. n
               /\ \A k \in DOMAIN b.tested : b.tested[k] = k - 1
               /\ b.nav.count[0] + b.nav.count[1]
                     <= a.nav.count[0] + a.nav.count[1] + 1
               /\ Recorded =>
                    /\ b.nav.seq = b.tested[Len(b.tested)]
                    /\ d[Len(d)].seq = b.nav.seq
               /\ ~Recorded /\ ~FrameError => Len(b.tested) = n

\* an L1CD channel in frame sync with TOI 399 records the frame of TOI 0
C11_Witness ==
    /\ Updated /\ Recorded /\ mid.b.sig = "L1CD"
    /\ mid.a.nav.fsync > 0 /\ mid.a.nav.seq = 399 /\ mid.b.nav.seq = 0
    /\ mid.b.tested = <<0>>

\* the first B1CD frame test of the process, made without frame sync: the
\* marker tested first is the one of counter 199, and the frame it matches
\* is recorded with nav.seq = 0
C11_FirstTestIs199 ==
    /\ Updated /\ Recorded /\ mid.b.sig = "B1CD"
    /\ mid.a.nav.fsync = 0 /\ mid.b.tested = <<199>> /\ mid.b.nav.seq = 0

----------------------------------------------------------------------------
(* Library functions called on their own, as the unit tests under src/test  *)
(* call them.  The receiver stays as it was constructed.                    *)

MaxBits == 6        \* longest bit array handed to a library function

rcv == <<ch, i, ix, pc, jx, iend, nloss, pre, mid, tables>>

RECURSIVE BitArrays(_)
\* np.array(np.random.rand(N) * 2, dtype='uint8') for N = 0 .. n
BitArrays(n) ==
    IF n = 0 THEN {<<>>}
    ELSE LET S == BitArrays(n - 1)
         IN  S \cup { Append(d, b) : d \in {x \in S : Len(x) = n - 1}, b \in {0, 1} }

RECURSIVE BitAnd(_, _)
\* X & Y of non-negative integers
BitAnd(X, Y) ==
    IF X = 0 \/ Y = 0 THEN 0
    ELSE (X % 2) * (Y % 2) + 2 * BitAnd(X \div 2, Y \div 2)

RECURSIVE xor_bits(_)
\* sdr_func.xor_bits: bin(X).count('1') % 2
xor_bits(X) == IF X = 0 THEN 0 ELSE ((X % 2) + xor_bits(X \div 2)) % 2

\* sdr_fec.POLY_CONV = (G1, G2)
POLY_CONV == <<79, 109>>

\* width in bits of the shift register R of encode_conv: R = (R << 1) +
\* (data[i] & 1) is a uint8 where a Python int is a weak scalar and an int64
\* where it is not; 64 bits never wrap within MaxBits + 6 shifts
RegWidths == {8, 64}

RECURSIVE conv_R(_, _, _)
\* R of encode_conv after the iteration i = n (0-based) of its loop
conv_R(data, w, n) ==
    IF n < 0 THEN 0
    ELSE LET R == 2 * conv_R(data, w, n - 1)
                      + (IF n < Len(data) THEN data[n + 1] % 2 ELSE 0)
         IN  IF w = 8 THEN R % 256 ELSE R

\* a wrong encoder: the two polynomials are taken in the other order
encode_conv_swapped(data, w) ==
    LET N == Len(data)
    IN  IF N <= 0 THEN <<>>
        ELSE [k \in 1 .. (N + 6) * 2 |->
                 xor_bits(BitAnd(conv_R(data, w, (k - 1) \div 2),
                                 POLY_CONV[2 - ((k - 1) % 2)]))]

\* sdr_fec.encode_conv(data); <<>> is NONE
encode_conv(data, w) ==
    LET N == Len(data)
    IN  IF N <= 0 THEN <<>>
        ELSE [k \in 1 .. (N + 6) * 2 |->
                 xor_bits(BitAnd(conv_R(data, w, (k - 1) \div 2),
                                 POLY_CONV[((k - 1) % 2) + 1]))]


\* the one element of a singleton set
The(S) == CHOOSE x \in S : TRUE

\* libfec: the metric of the branch that shifts bit b into state p, against
\* the symbol pair (y0, y1)
branch_metric(p, b, y0, y1) ==
    Abs(255 * xor_bits(BitAnd(2 * p + b, POLY_CONV[1])) - y0)
    + Abs(255 * xor_bits(BitAnd(2 * p + b, POLY_CONV[2])) - y1)

\* libfec butterfly: metric m and decision d of the state s that survives
\* from the states s >> 1 and (s >> 1) + 32 of the metrics old
butterfly(old, s, y0, y1) ==
    The({ [m |-> IF m0 - m1 > 0 THEN m1 ELSE m0, d |-> IF m0 - m1 > 0 THEN 1 ELSE 0]
          : m0 \in {old[s \div 2].m + branch_metric(s \div 2, s % 2, y0, y1)},
            m1 \in {old[(s \div 2) + 32].m
                    + branch_metric((s \div 2) + 32, s % 2, y0, y1)} })

RECURSIVE update_viterbi27_blk(_, _)
\* libfec: for every symbol pair 1 .. t the metric and the decision of each
\* state, the decoder created in state 0 (metric 0, every other state 63).
\* State s holds the last six bits, the newest lowest.
update_viterbi27_blk(data, t) ==
    IF t = 0 THEN <<>>
    ELSE The({ Append(prev,
                      [s \in 0 .. 63 |->
                          butterfly(IF t = 1
                                    THEN [q \in 0 .. 63 |->
                                             [m |-> IF q = 0 THEN 0 ELSE 63, d |-> 0]]
                                    ELSE prev[t - 1],
                                    s, data[2 * t - 1], data[2 * t])])
               : prev \in {update_viterbi27_blk(data, t - 1)} })

RECURSIVE chain_state(_, _, _)
\* libfec chainback: the state of the surviving path after t symbol pairs,
\* traced back from the end state 0 after n pairs
chain_state(dec, n, t) ==
    IF t = n THEN 0
    ELSE The({ (s \div 2) + 32 * dec[t + 1][s].d : s \in {chain_state(dec, n, t + 1)} })

\* libfec chainback_viterbi27(dec, bits, N, 0): the N decoded bits packed
\* into (N + 7) // 8 bytes, the first bit highest
chainback_viterbi27(dec, N) ==
    LET bit(k) == IF k <= N THEN dec[k + 6][chain_state(dec, N + 6, k + 6)].d ELSE 0
    IN  [j \in 1 .. (N + 7) \div 8 |->
            bit(8 * j - 7) * 128 + bit(8 * j - 6) * 64 + bit(8 * j - 5) * 32
            + bit(8 * j - 4) * 16 + bit(8 * j - 3) * 8 + bit(8 * j - 2) * 4
            + bit(8 * j - 1) * 2 + bit(8 * j)]

Pow2(n) == IF n = 0 THEN 1 ELSE IF n = 1 THEN 2 ELSE IF n = 2 THEN 4
           ELSE IF n = 3 THEN 8 ELSE IF n = 4 THEN 16 ELSE IF n = 5 THEN 32
           ELSE IF n = 6 THEN 64 ELSE 128

\* sdr_fec.decode_conv(data); <<>> is NONE
decode_conv(data) ==
    LET N == (Len(data) \div 2) - 6
    IN  IF N <= 0 THEN <<>>
        ELSE The({ [k \in 1 .. N |->
                       (bits[((k - 1) \div 8) + 1] \div Pow2(7 - ((k - 1) % 8))) % 2]
                   : bits \in { chainback_viterbi27(dec, N)
                                : dec \in {update_viterbi27_blk(data, N + 6)} } })
----------------------------------------------------------------------------
(* Reed-Solomon RS(255,223) of libfec (encode_rs_ccsds, decode_rs_ccsds):   *)
(* symbols of GF(256) with the field polynomial 0x187, 32 roots, first root *)
(* 112, primitive element 11.  Indices are those of the C arrays.           *)

\* libfec CCSDS_alpha_to: alpha^k in polynomial form (k = 255: 0)
CCSDS_alpha_to == <<
    1, 2, 4, 8, 16, 32, 64, 128, 135, 137, 149, 173, 221, 61, 122, 244,
    111, 222, 59, 118, 236, 95, 190, 251, 113, 226, 67, 134, 139, 145, 165, 205,
    29, 58, 116, 232, 87, 174, 219, 49, 98, 196, 15, 30, 60, 120, 240, 103,
    206, 27, 54, 108, 216, 55, 110, 220, 63, 126, 252, 127, 254, 123, 246, 107,
    214, 43, 86, 172, 223, 57, 114, 228, 79, 158, 187, 241, 101, 202, 19, 38,
    76, 152, 183, 233, 85, 170, 211, 33, 66, 132, 143, 153, 181, 237, 93, 186,
    243, 97, 194, 3, 6, 12, 24, 48, 96, 192, 7, 14, 28, 56, 112, 224,
    71, 142, 155, 177, 229, 77, 154, 179, 225, 69, 138, 147, 161, 197, 13, 26,
    52, 104, 208, 39, 78, 156, 191, 249, 117, 234, 83, 166, 203, 17, 34, 68,
    136, 151, 169, 213, 45, 90, 180, 239, 89, 178, 227, 65, 130, 131, 129, 133,
    141, 157, 189, 253, 125, 250, 115, 230, 75, 150, 171, 209, 37, 74, 148, 175,
    217, 53, 106, 212, 47, 94, 188, 255, 121, 242, 99, 198, 11, 22, 44, 88,
    176, 231, 73, 146, 163, 193, 5, 10, 20, 40, 80, 160, 199, 9, 18, 36,
    72, 144, 167, 201, 21, 42, 84, 168, 215, 41, 82, 164, 207, 25, 50, 100,
    200, 23, 46, 92, 184, 247, 105, 210, 35, 70, 140, 159, 185, 245, 109, 218,
    51, 102, 204, 31, 62, 124, 248, 119, 238, 91, 182, 235, 81, 162, 195, 0 >>

\* libfec CCSDS_index_of: log_alpha(x) (x = 0: A0 = 255)
CCSDS_index_of == <<
    255, 0, 1, 99, 2, 198, 100, 106, 3, 205, 199, 188, 101, 126, 107, 42,
    4, 141, 206, 78, 200, 212, 189, 225, 102, 221, 127, 49, 108, 32, 43, 243,
    5, 87, 142, 232, 207, 172, 79, 131, 201, 217, 213, 65, 190, 148, 226, 180,
    103, 39, 222, 240, 128, 177, 50, 53, 109, 69, 33, 18, 44, 13, 244, 56,
    6, 155, 88, 26, 143, 121, 233, 112, 208, 194, 173, 168, 80, 117, 132, 72,
    202, 252, 218, 138, 214, 84, 66, 36, 191, 152, 149, 249, 227, 94, 181, 21,
    104, 97, 40, 186, 223, 76, 241, 47, 129, 230, 178, 63, 51, 238, 54, 16,
    110, 24, 70, 166, 34, 136, 19, 247, 45, 184, 14, 61, 245, 164, 57, 59,
    7, 158, 156, 157, 89, 159, 27, 8, 144, 9, 122, 28, 234, 160, 113, 90,
    209, 29, 195, 123, 174, 10, 169, 145, 81, 91, 118, 114, 133, 161, 73, 235,
    203, 124, 253, 196, 219, 30, 139, 210, 215, 146, 85, 170, 67, 11, 37, 175,
    192, 115, 153, 119, 150, 92, 250, 82, 228, 236, 95, 74, 182, 162, 22, 134,
    105, 197, 98, 254, 41, 125, 187, 204, 224, 211, 77, 140, 242, 31, 48, 220,
    130, 171, 231, 86, 179, 147, 64, 216, 52, 176, 239, 38, 55, 12, 17, 68,
    111, 120, 25, 154, 71, 116, 167, 193, 35, 83, 137, 251, 20, 93, 248, 151,
    46, 75, 185, 96, 15, 237, 62, 229, 246, 135, 165, 23, 58, 163, 60, 183 >>

\* libfec CCSDS_poly: the generator polynomial in index form
CCSDS_poly == <<
    0, 249, 59, 66, 4, 43, 126, 251, 97, 30, 3, 213, 50, 66, 170, 5,
    24, 5, 170, 66, 50, 213, 3, 30, 97, 251, 126, 43, 4, 66, 59, 249,
    0 >>

ALPHA(k) == CCSDS_alpha_to[k + 1]

INDEX(x) == CCSDS_index_of[x + 1]

GENPOLY(k) == CCSDS_poly[k + 1]

RECURSIVE BitXor(_, _)
\* X ^ Y of non-negative integers
BitXor(X, Y) ==
    IF X = 0 THEN Y ELSE IF Y = 0 THEN X
    ELSE ((X + Y) % 2) + 2 * BitXor(X \div 2, Y \div 2)

\* x ^ y of two bytes
XorTab == [x \in 0 .. 255 |-> [y \in 0 .. 255 |-> BitXor(x, y)]]

gf_add(x, y) == XorTab[x][y]

modnn(x) == x % 255

\* x * alpha^e
gf_mul_exp(x, e) == IF x = 0 THEN 0 ELSE ALPHA(modnn(INDEX(x) + e))

\* alpha^(a + e) for a in index form
gf_exp(a, e) == IF a = 255 THEN 0 ELSE ALPHA(modnn(a + e))

RECURSIVE gf_sum(_, _)
\* f[1] ^ ... ^ f[n]
gf_sum(f, n) == IF n = 0 THEN 0 ELSE gf_add(f[n], gf_sum(f, n - 1))

\* encode_rs: one shift of the parity register bb with the feedback symbol fb
rs_shift(bb, fb) ==
    [j \in 1 .. 32 |->
        IF j < 32 THEN gf_add(bb[j + 1], gf_mul_exp(fb, GENPOLY(32 - j)))
        ELSE gf_mul_exp(fb, GENPOLY(0))]

RECURSIVE rs_feed(_, _, _, _)
\* encode_rs: the parity register bb after the data symbols lo + 1 .. lo + n
\* are fed into it
rs_feed(bb, data, lo, n) ==
    IF n = 0 THEN bb
    ELSE The({ rs_shift(b2, gf_add(data[lo + n], b2[1]))
               : b2 \in {rs_feed(bb, data, lo, n - 1)} })

RECURSIVE rs_parity(_, _)
\* encode_rs: the parity register after the first blk blocks of 16 data
\* symbols (the last block has 15)
rs_parity(data, blk) ==
    IF blk = 0 THEN [j \in 1 .. 32 |-> 0]
    ELSE The({ rs_feed(bb, data, 16 * (blk - 1), Min(16, 223 - 16 * (blk - 1)))
               : bb \in {rs_parity(data, blk - 1)} })

\* libfec encode_rs_ccsds(data, parity, 0): the 32 parity symbols of 223
\* data symbols
encode_rs_ccsds(data) == rs_parity(data, 14)

RECURSIVE gf_sum_range(_, _, _)
\* f[lo] ^ ... ^ f[hi]
gf_sum_range(f, lo, hi) ==
    IF lo = hi THEN f[lo]
    ELSE gf_add(gf_sum_range(f, lo, (lo + hi) \div 2),
                gf_sum_range(f, ((lo + hi) \div 2) + 1, hi))

\* decode_rs: the syndromes s[0 .. 31] in polynomial form, s[k] the value of
\* the received polynomial at alpha^((112 + k) * 11)
rs_syndromes(data) ==
    [k \in 0 .. 31 |->
        gf_sum_range([n \in 1 .. 255 |->
                         gf_mul_exp(data[n], modnn((112 + k) * 11 * (255 - n)))],
                     1, 255)]

\* decode_rs: one iteration r of the Berlekamp-Massey loop on the syndromes s
\* (index form); lambda in polynomial form, b in index form
rs_bm_step(s, r, st) ==
    The({ IF discr = 255
          THEN [st EXCEPT !.b = [k \in 0 .. 32 |-> IF k = 0 THEN 255 ELSE st.b[k - 1]]]
          ELSE [lambda |-> [k \in 0 .. 32 |->
                               IF k = 0 THEN st.lambda[0]
                               ELSE gf_add(st.lambda[k], gf_exp(st.b[k - 1], discr))],
                b |-> IF 2 * st.el <= r - 1
                      THEN [k \in 0 .. 32 |->
                               IF st.lambda[k] = 0 THEN 255
                               ELSE modnn(INDEX(st.lambda[k]) - discr + 255)]
                      ELSE [k \in 0 .. 32 |-> IF k = 0 THEN 255 ELSE st.b[k - 1]],
                el |-> IF 2 * st.el <= r - 1 THEN r - st.el ELSE st.el]
          : discr \in { INDEX(gf_sum([k \in 1 .. r |->
                                         gf_mul_exp(st.lambda[k - 1],
                                                    IF s[r - k] = 255 THEN 0 ELSE s[r - k])
                                         * (IF s[r - k] = 255 THEN 0 ELSE 1)], r)) } })

RECURSIVE rs_bm(_, _)
\* decode_rs: the error locator after r iterations
rs_bm(s, r) ==
    IF r = 0
    THEN [lambda |-> [k \in 0 .. 32 |-> IF k = 0 THEN 1 ELSE 0],
          b |-> [k \in 0 .. 32 |-> IF k = 0 THEN 0 ELSE 255],
          el |-> 0]
    ELSE The({ rs_bm_step(s, r, st) : st \in {rs_bm(s, r - 1)} })

\* the highest k with lambda[k] # A0 (lambda in index form)
rs_degree(lambda) ==
    IF \E k \in 0 .. 32 : lambda[k] # 255
    THEN CHOOSE k \in 0 .. 32 : lambda[k] # 255 /\ \A q \in k + 1 .. 32 : lambda[q] = 255
    ELSE 0

\* decode_rs, the Chien search: x = 1 .. 255 with lambda(alpha^x) = 0
rs_roots(lambda, deg) ==
    { x \in 1 .. 255 :
         gf_sum([j \in 1 .. deg |-> gf_exp(lambda[j], j * x)], deg) = 1 }

\* decode_rs: omega(x) = s(x) lambda(x) mod x^nroots, in index form
rs_omega(s, lambda, deg) ==
    [k \in 0 .. deg - 1 |->
        INDEX(gf_sum([j \in 1 .. k + 1 |->
                         IF s[k - (j - 1)] # 255 /\ lambda[j - 1] # 255
                         THEN ALPHA(modnn(s[k - (j - 1)] + lambda[j - 1])) ELSE 0], k + 1))]

\* decode_rs, the Forney algorithm: [num1, den] of the error value at root x
rs_forney(omega, lambda, deg, x) ==
    [num1 |-> gf_sum([j \in 1 .. deg |-> gf_exp(omega[j - 1], (j - 1) * x)], deg),
     den |-> gf_sum([j \in 1 .. (Min(deg, 31) \div 2) + 1 |->
                        gf_exp(lambda[2 * j - 1], (2 * j - 2) * x)],
                    (Min(deg, 31) \div 2) + 1)]

\* decode_rs: the error value of the root x
rs_error(f, x) ==
    IF f.num1 = 0 THEN 0
    ELSE ALPHA(modnn(INDEX(f.num1) + INDEX(ALPHA(modnn(x * 111 + 255)))
                     + 255 - INDEX(f.den)))

\* libfec decode_rs_ccsds(data, NULL, 0, 0) on 255 symbols: [nerr, syms],
\* the number of corrected symbols (-1: uncorrectable) and the symbols as it
\* leaves them
decode_rs_ccsds(data) ==
    The({ IF \A k \in 0 .. 31 : s[k] = 255 THEN [nerr |-> 0, syms |-> data]
          ELSE The({ The({
                 IF Cardinality(roots) # deg THEN [nerr |-> -1, syms |-> data]
                 ELSE The({
                     IF \E x \in roots : f[x].den = 0
                     THEN [nerr |-> -1,
                           syms |-> [n \in 1 .. 255 |->
                              IF \E x \in roots :
                                    /\ modnn(116 * x - 1) = n - 1
                                    /\ \A y \in roots : f[y].den = 0 => y < x
                              THEN gf_add(data[n],
                                      rs_error(f[CHOOSE x \in roots :
                                                    modnn(116 * x - 1) = n - 1], 
                                               CHOOSE x \in roots :
                                                    modnn(116 * x - 1) = n - 1))
                              ELSE data[n]]]
                     ELSE [nerr |-> deg,
                           syms |-> [n \in 1 .. 255 |->
                              IF \E x \in roots : modnn(116 * x - 1) = n - 1
                              THEN gf_add(data[n],
                                      rs_error(f[CHOOSE x \in roots :
                                                    modnn(116 * x - 1) = n - 1],
                                               CHOOSE x \in roots :
                                                    modnn(116 * x - 1) = n - 1))
                              ELSE data[n]]]
                     : f \in { [x \in roots |->
                                  rs_forney(rs_omega(s, lambda, deg), lambda, deg, x)] } })
                 : roots \in {rs_roots(lambda, rs_degree(lambda))},
                   deg \in {rs_degree(lambda)} })
               : lambda \in { [k \in 0 .. 32 |-> INDEX(lam[k])]
                              : lam \in {rs_bm(s, 32).lambda} } })
          : s \in { [k \in 0 .. 31 |-> INDEX(sp[k])] : sp \in {rs_syndromes(data)} } })

\* sdr_fec.encode_rs(syms): the symbols as it leaves them
encode_rs(syms) ==
    IF Len(syms) < 255 THEN syms
    ELSE SubSeq(syms, 1, 223) \o encode_rs_ccsds(SubSeq(syms, 1, 223))

\* a wrong decoder: the count is returned and the symbols are left as they
\* came
decode_rs_count_only(syms) ==
    IF Len(syms) < 255 THEN [nerr |-> -1, syms |-> syms]
    ELSE [nerr |-> decode_rs_ccsds(syms).nerr, syms |-> syms]

\* sdr_fec.decode_rs(syms) on given symbols: [nerr, syms], the value returned
\* and the symbols as it leaves them
decode_rs_syms(syms) ==
    IF Len(syms) < 255 THEN [nerr |-> -1, syms |-> syms]
    ELSE decode_rs_ccsds(syms)

----------------------------------------------------------------------------
(* Non-binary LDPC decoder of sdr_nb_ldpc.py over GF(64).  A message or LLR *)
(* vector is a function on 0 .. 63; its values are counted in units of      *)
(* -log(ERR_PROB).  Node numbers are those of the code (from 0), edges are  *)
(* numbered from 1.                                                         *)

N_GF == 6

Q_GF == 64

MAX_ITER == 15

NM_EMS == 4

\* power -> vector
GF_VEC == <<
     1,  2,  4,  8, 16, 32,  3,  6, 12, 24, 48, 35,  5, 10, 20, 40,
    19, 38, 15, 30, 60, 59, 53, 41, 17, 34,  7, 14, 28, 56, 51, 37,
     9, 18, 36, 11, 22, 44, 27, 54, 47, 29, 58, 55, 45, 25, 50, 39,
    13, 26, 52, 43, 21, 42, 23, 46, 31, 62, 63, 61, 57, 49, 33 >>

\* vector -> power
GF_POW == <<
     0,  0,  1,  6,  2, 12,  7, 26,  3, 32, 13, 35,  8, 48, 27, 18,
     4, 24, 33, 16, 14, 52, 36, 54,  9, 45, 49, 38, 28, 41, 19, 56,
     5, 62, 25, 11, 34, 31, 17, 47, 15, 23, 53, 51, 37, 44, 55, 40,
    10, 61, 46, 30, 50, 22, 39, 43, 29, 60, 42, 21, 20, 59, 57, 58 >>

\* init_table: GF_MUL[x][y]
GF_MUL ==
    [x \in 0 .. Q_GF - 1 |-> [y \in 0 .. Q_GF - 1 |->
        IF x = 0 \/ y = 0 THEN 0
        ELSE GF_VEC[((GF_POW[x + 1] + GF_POW[y + 1]) % (Q_GF - 1)) + 1]]]

\* bin2gf(syms): six bits a symbol, the first bit highest
bin2gf(syms) ==
    [k \in 1 .. Len(syms) \div N_GF |->
        32 * syms[6 * k - 5] + 16 * syms[6 * k - 4] + 8 * syms[6 * k - 3]
        + 4 * syms[6 * k - 2] + 2 * syms[6 * k - 1] + syms[6 * k]]

\* gf2bin(code)
gf2bin(code) ==
    [k \in 1 .. Len(code) * N_GF |->
        (code[((k - 1) \div N_GF) + 1] \div Pow2(N_GF - 1 - ((k - 1) % N_GF))) % 2]

RECURSIVE Flatten(_, _)
\* the first k rows of a matrix one after the other
Flatten(rows, k) == IF k = 0 THEN <<>> ELSE Flatten(rows, k - 1) \o rows[k]

\* graph_edge(H_idx, H_ele): CN-index, VN-index and H_ij of the edges
graph_edge(H_idx, H_ele) ==
    [ie |-> Flatten([r \in 1 .. Len(H_idx) |-> [k \in 1 .. Len(H_idx[r]) |-> r - 1]],
                    Len(H_idx)),
     je |-> Flatten(H_idx, Len(H_idx)),
     he |-> Flatten(H_ele, Len(H_ele))]

\* bin(x).count('1')
count_ones(x) ==
    (x % 2) + ((x \div 2) % 2) + ((x \div 4) % 2) + ((x \div 8) % 2)
    + ((x \div 16) % 2) + ((x \div 32) % 2)

\* init_LLR(code, ERR_PROB)
init_LLR(code) ==
    [k \in 1 .. Len(code) |-> [q \in 0 .. Q_GF - 1 |-> count_ones(XorTab[code[k]][q])]]

\* a wrong parity check: only the first check node is looked at
check_parity_first(g, m, code) ==
    gf_sum([e \in 1 .. Len(g.ie) |->
               IF g.ie[e] = 0 THEN GF_MUL[g.he[e]][code[g.je[e] + 1]] ELSE 0],
           Len(g.ie)) = 0

\* check_parity(ie, je, he, m, code)
check_parity(g, m, code) ==
    \A r \in 0 .. m - 1 :
        gf_sum([e \in 1 .. Len(g.ie) |->
                   IF g.ie[e] = r THEN GF_MUL[g.he[e]][code[g.je[e] + 1]] ELSE 0],
               Len(g.ie)) = 0

\* permute_V2C(h, V2C)
permute_V2C(h, V) ==
    [q \in 0 .. Q_GF - 1 |->
        IF \E p \in 0 .. Q_GF - 1 : GF_MUL[h][p] = q
        THEN V[CHOOSE p \in 0 .. Q_GF - 1 :
                   GF_MUL[h][p] = q /\ \A p2 \in p + 1 .. Q_GF - 1 : GF_MUL[h][p2] # q]
        ELSE 0]

\* permute_C2V(h, C2V)
permute_C2V(h, C) == [q \in 0 .. Q_GF - 1 |-> C[GF_MUL[h][q]]]

\* np.min(L)
vec_min(L) ==
    The({ CHOOSE v \in vals : \A w \in vals : v <= w
          : vals \in {{L[q] : q \in 0 .. Q_GF - 1}} })

\* np.argmin(L): the first index of the least value
vec_argmin(L) ==
    The({ CHOOSE q \in 0 .. Q_GF - 1 : L[q] = v /\ \A p \in 0 .. q - 1 : L[p] # v
          : v \in {vec_min(L)} })

\* the orders np.argsort may give to equal values: lowest or highest index
\* first
TieOrders == {"low", "high"}

\* the index np.argsort puts next after the indices in done
next_sorted(L, done, ties) ==
    The({ The({ IF ties = "low"
                THEN CHOOSE q \in cand : \A p \in cand : q <= p
                ELSE CHOOSE q \in cand : \A p \in cand : q >= p
                : cand \in {{q \in (0 .. Q_GF - 1) \ done : L[q] = v}} })
          : v \in { The({ CHOOSE v \in vals : \A w \in vals : v <= w
                          : vals \in {{L[q] : q \in (0 .. Q_GF - 1) \ done}} }) } })

RECURSIVE argsort(_, _, _)
\* np.argsort(L)[:k]
argsort(L, k, ties) ==
    IF k = 0 THEN <<>>
    ELSE The({ Append(idx, next_sorted(L, {idx[x] : x \in 1 .. k - 1}, ties))
               : idx \in {argsort(L, k - 1, ties)} })

\* ext_min_sum: Ls after the pairs (idx1[a], idx2[b]) up to the pair number k
\* (in the order of the two loops); the least sum of a pair that falls on q,
\* if it is below maxL
ems_pairs(L1, L2, idx1, idx2) ==
    The({ [q \in 0 .. Q_GF - 1 |->
              The({ IF sums = {} THEN maxL
                    ELSE Min(maxL, CHOOSE v \in sums : \A w \in sums : v <= w)
                    : sums \in {{ L1[idx1[a]] + L2[idx2[b]]
                                  : <<a, b>> \in { p \in (1 .. NM_EMS) \X (1 .. NM_EMS) :
                                         XorTab[idx1[p[1]]][idx2[p[2]]] = q } }} })]
          : maxL \in {L1[idx1[NM_EMS]] + L2[idx2[NM_EMS]]} })

\* ext_min_sum(L1, L2); <<>> is the empty list
ext_min_sum(L1, L2, ties) ==
    IF DOMAIN L1 = {} THEN L2
    ELSE The({ ems_pairs(L1, L2, idx[1], idx[2])
               : idx \in {<<argsort(L1, NM_EMS, ties), argsort(L2, NM_EMS, ties)>>} })

\* Ls -= np.min(Ls)
normalize(L) == The({ [q \in 0 .. Q_GF - 1 |-> L[q] - v] : v \in {vec_min(L)} })

RECURSIVE cn_sum(_, _, _, _, _)
\* "update check nodes": Ls of the edge e after the edges 1 .. k
cn_sum(g, V2C, e, k, ties) ==
    IF k = 0 THEN <<>>
    ELSE The({ IF g.ie[e] = g.ie[k] /\ e # k THEN ext_min_sum(Ls, V2C[k], ties) ELSE Ls
               : Ls \in {cn_sum(g, V2C, e, k - 1, ties)} })

RECURSIVE vec_sum(_, _, _, _)
\* L + the C2V[k] of the edges k = 1 .. n in the set sel
vec_sum(L, C2V, sel, n) ==
    IF n = 0 THEN L
    ELSE The({ IF n \in sel THEN [q \in 0 .. Q_GF - 1 |-> Ls[q] + C2V[n][q]] ELSE Ls
               : Ls \in {vec_sum(L, C2V, sel, n - 1)} })

\* one iteration of decode_NB_LDPC after its parity check: the check nodes,
\* the variable nodes, then the LLR and the GF(q) codes
nb_update(g, n, st, ties) ==
    The({ The({ [code |-> [v \in 1 .. n |-> vec_argmin(L[v])],
                 L |-> L,
                 V2C |-> [e \in 1 .. Len(g.ie) |->
                             permute_V2C(g.he[e],
                                 normalize(vec_sum(st.L[g.je[e] + 1], C2V,
                                     {k \in 1 .. Len(g.ie) : g.je[k] = g.je[e] /\ k # e},
                                     Len(g.ie))))],
                 tested |-> st.tested]
                : L \in { [v \in 1 .. n |->
                             normalize(vec_sum(st.L[v], C2V,
                                 {k \in 1 .. Len(g.ie) : g.je[k] = v - 1}, Len(g.ie)))] } })
          : C2V \in { [e \in 1 .. Len(g.ie) |->
                         permute_C2V(g.he[e],
                             normalize(cn_sum(g, st.V2C, e, Len(g.ie), ties)))] } })

RECURSIVE nb_iterate(_, _, _, _, _, _)
\* the loop of decode_NB_LDPC from the iteration iter on; tested are the
\* estimates check_parity has been called on, rounds the updates done
nb_iterate(g, m, n, syms, st, iter) ==
    IF iter.n = MAX_ITER
    THEN [syms_dec |-> SubSeq(gf2bin(st.code), 1, m * N_GF), nerr |-> -1,
          code |-> st.code, tested |-> st.tested, rounds |-> iter.n]
    ELSE IF check_parity(g, m, st.code)
    THEN [syms_dec |-> SubSeq(gf2bin(st.code), 1, m * N_GF),
          nerr |-> Cardinality({k \in 1 .. Len(syms) : gf2bin(st.code)[k] # syms[k]}),
          code |-> st.code, tested |-> Append(st.tested, st.code),
          rounds |-> iter.n]
    ELSE The({ nb_iterate(g, m, n, syms, st2, [iter EXCEPT !.n = @ + 1])
               : st2 \in { nb_update(g, n, [st EXCEPT !.tested = Append(@, st.code)],
                                     iter.ties) } })

\* decode_NB_LDPC(H_idx, H_ele, m, n, syms): [syms_dec, nerr], with the final
\* estimate and the estimates tested
decode_NB_LDPC(H_idx, H_ele, m, n, syms, ties) ==
    The({ The({ nb_iterate(g, m, n, syms,
                           [code |-> code, L |-> L,
                            V2C |-> [e \in 1 .. Len(g.ie) |->
                                        permute_V2C(g.he[e], L[g.je[e] + 1])],
                            tested |-> <<>>],
                           [n |-> 0, ties |-> ties])
                : L \in {init_LLR(code)} })
          : g \in {graph_edge(H_idx, H_ele)}, code \in {bin2gf(syms)} })

----------------------------------------------------------------------------
(* Bit and buffer utilities of sdr_func.py                                  *)

\* a wrong packing: the first bit of a byte is its lowest
pack_bits_lsb(data, nz) ==
    LET d == [k \in 1 .. nz |-> 0] \o data
        N == Len(d)
    IN  [j \in 1 .. (N + 7) \div 8 |->
            LET bit(k) == IF 8 * (j - 1) + k < N THEN d[8 * (j - 1) + k + 1] ELSE 0
            IN  bit(0) + bit(1) * 2 + bit(2) * 4 + bit(3) * 8
                + bit(4) * 16 + bit(5) * 32 + bit(6) * 64 + bit(7) * 128]

\* sdr_func.pack_bits(data, nz): buff[i // 8] |= data[i] << (7 - i % 8) for
\* the bits 0 and 1 of data after nz zero bits
pack_bits(data, nz) ==
    LET d == [k \in 1 .. nz |-> 0] \o data
        N == Len(d)
    IN  [j \in 1 .. (N + 7) \div 8 |->
            LET bit(k) == IF 8 * (j - 1) + k < N THEN d[8 * (j - 1) + k + 1] ELSE 0
            IN  bit(0) * 128 + bit(1) * 64 + bit(2) * 32 + bit(3) * 16
                + bit(4) * 8 + bit(5) * 4 + bit(6) * 2 + bit(7)]

\* sdr_func.unpack_bits(data, N)
unpack_bits(data, N) ==
    [k \in 1 .. N |->
        IF k - 1 < Min(N, Len(data) * 8)
        THEN (data[((k - 1) \div 8) + 1] \div Pow2(7 - ((k - 1) % 8))) % 2
        ELSE 0]

----------------------------------------------------------------------------

\* sdr_fec_test.test_01: dec_data = decode_conv(encode_conv(org_data) * 255)
test_01 ==
    /\ call = NoCall
    /\ \E d \in BitArrays(MaxBits), w \in RegWidths :
          \E enc \in {encode_conv(d, w)} :
             \E sym \in {[k \in 1 .. Len(enc) |-> (enc[k] * 255) % 256]} :
                call' = [op |-> "conv", org_data |-> d, enc_data |-> enc,
                         sym |-> sym, dec_data |-> decode_conv(sym)]
    /\ UNCHANGED rcv

MaxInj == 18        \* most errors injected into one code word

\* sdr_fec_test.test_02: org_data, the payloads
Payloads == { [n \in 1 .. 223 |-> 0], [n \in 1 .. 223 |-> (7 * n + 3) % 256] }

\* errors that lead to another code word: its 17 data symbols that are not 0
AnotherWord == <<1, 185, 169, 15, 67, 22, 140, 64, 158, 92, 24, 118, 159, 15, 232, 23, 210>>

\* sdr_fec_test.test_02, "add errors": n times enc_data[pos] ^= 0x55 at the
\* positions 3, 16, 29, ..., or the first 17 data symbols changed by
\* AnotherWord
Corrupted(enc) ==
    { [k \in 1 .. 255 |->
          IF \E q \in 0 .. n - 1 : (3 + 13 * q) % 223 = k - 1
          THEN gf_add(enc[k], 85) ELSE enc[k]] : n \in 0 .. MaxInj }
    \cup { [k \in 1 .. 255 |-> IF k <= 17 THEN gf_add(enc[k], AnotherWord[k]) ELSE enc[k]] }

\* sdr_fec_test.test_02: encode_rs, add errors, decode_rs
test_02 ==
    /\ call = NoCall
    /\ \E org \in Payloads :
          \E enc \in {encode_rs(org \o [n \in 1 .. 32 |-> 0])} :
             \E rx \in Corrupted(enc) :
                \E r \in {decode_rs_syms(rx)} :
                   call' = [op |-> "rs", org_data |-> org, enc_data |-> enc,
                            rx_data |-> rx, dec_data |-> r.syms, nerr |-> r.nerr]
    /\ UNCHANGED rcv

MaxFlip == 2        \* most bits flipped in one LDPC code word

\* a parity check matrix of two check nodes on four variable nodes: the
\* variable nodes of each row and its elements of GF(64)
Tanner == [H_idx |-> << <<0, 1, 2>>, <<1, 2, 3>> >>,
           H_ele |-> << <<1, 2, 3>>, <<5, 1, 7>> >>, m |-> 2, n |-> 4]

\* two code words of Tanner, as symbols
CodeWords == { <<0, 0, 0, 0>>, <<50, 9, 33, 25>> }

\* four bit errors from which the decoder reaches a code word in its last
\* update round
LateFlips == {1, 5, 11, 17}

\* the bits of a code word with up to MaxFlip of the bits 3, 8 and 20 flipped,
\* or with the bits LateFlips flipped
Flipped(code) ==
    { [k \in 1 .. Len(code) * N_GF |->
          IF k \in f THEN 1 - gf2bin(code)[k] ELSE gf2bin(code)[k]]
      : f \in {x \in SUBSET {3, 8, 20} : Cardinality(x) <= MaxFlip} \cup {LateFlips} }

\* sdr_nb_ldpc.decode_NB_LDPC(H_idx, H_ele, m, n, syms) on its own
call_decode_NB_LDPC ==
    /\ call = NoCall
    /\ \E code \in CodeWords, ties \in TieOrders :
          \E syms \in Flipped(code) :
             \E r \in {decode_NB_LDPC(Tanner.H_idx, Tanner.H_ele, Tanner.m, Tanner.n,
                                      syms, ties)} :
                call' = [op |-> "nb_ldpc", syms |-> syms, syms_dec |-> r.syms_dec,
                         nerr |-> r.nerr, code |-> r.code, tested |-> r.tested,
                         rounds |-> r.rounds]
    /\ UNCHANGED rcv

\* add_buff with the item put first and the last element dropped
add_buff_front(buff, item) ==
    The({ [k \in 1 .. n |-> IF k = 1 THEN item ELSE buff[k - 1]]
          : n \in {Len(buff)} })

\* buff[:-1], buff[-1] = buff[1:], item: the right side is taken first, then
\* the slice and the last element are assigned in place
add_buff(buff, item) ==
    The({ [k \in 1 .. n |-> IF k <= n - 1 THEN buff[k + 1] ELSE item]
          : n \in {Len(buff)} })

\* np.zeros(n)
zeros(n) == [k \in 1 .. n |-> 0]

N_HIST == 10000     \* entries of trk.P
N_SYMS == 18000     \* entries of nav.syms: np.zeros(18000) in nav_new

\* the buffers add_buff is called on, with their lengths at construction:
\* trk.P in trk_new, nav.syms in nav_new, and a short array
Capacity(name) ==
    CASE name = "trk.P" -> N_HIST
      [] name = "nav.syms" -> N_SYMS
      [] name = "short" -> 3

MaxAdd == 4         \* items added to a buffer after it was zeroed

\* trk_new / nav_new: the buffer is allocated
new_buff ==
    /\ call = NoCall
    /\ \E name \in {"trk.P", "nav.syms", "short"} :
          call' = [op |-> "add_buff", name |-> name, buff |-> zeros(Capacity(name)),
                   prev |-> <<>>, items |-> <<>>]
    /\ UNCHANGED rcv

\* track_sig / the decoders: add_buff(ch.trk.P, ...), add_buff(ch.nav.syms, ...)
call_add_buff ==
    /\ call.op = "add_buff"
    /\ Len(call.items) < MaxAdd
    /\ \E item \in {1, 2} :
          call' = [call EXCEPT !.buff = add_buff(@, item), !.prev = call.buff,
                               !.items = Append(@, item)]
    /\ UNCHANGED rcv

\* trk_init / nav_init: trk.P[:] = 0.0, nav.syms[:] = 0, in place
init_buff ==
    /\ call.op = "add_buff"
    /\ call.items # <<>>
    /\ call' = [call EXCEPT !.buff = [k \in DOMAIN @ |-> 0], !.prev = <<>>,
                            !.items = <<>>]
    /\ UNCHANGED rcv

MaxPack == 10       \* longest bit array packed into bytes

\* sdr_func_test.test_01: unpack_bits(pack_bits(bits), N), also with zero
\* bits put in front as the decoders of sdr_nav.py do
func_test_01 ==
    /\ call = NoCall
    /\ \E bits \in BitArrays(MaxPack), nz \in {0, 3} :
          \E buff \in {pack_bits(bits, nz)} :
             call' = [op |-> "pack", bits |-> bits, nz |-> nz, pack_bits |-> buff,
                      unpack_bits |-> unpack_bits(buff, nz + Len(bits))]
    /\ UNCHANGED rcv

MaxPreamb == 2      \* longest preamble handed to sync_frame

\* np.all(a == b) and np.all(a != b) of two arrays of one length
AllEq(a, b) == \A k \in DOMAIN b : a[k] = b[k]

AllNe(a, b) == \A k \in DOMAIN b : a[k] # b[k]

\* sync_frame that tests the first preamble only
sync_frame_first(c, preamb, bits) ==
    LET N == Len(preamb)
    IN  IF AllEq(SubSeq(bits, 1, N), preamb)
        THEN [c |-> Log(c, LogMsg(c, c.time, "FRAME SYNC (N)")), ret |-> 0]
        ELSE IF AllNe(SubSeq(bits, 1, N), preamb)
        THEN [c |-> Log(c, LogMsg(c, c.time, "FRAME SYNC (R)")), ret |-> 1]
        ELSE [c |-> c, ret |-> -1]

\* sync_frame on the bits themselves: the channel it leaves and what it returns
sync_frame_bits(c, preamb, bits) ==
    LET N == Len(preamb)
        n == Len(bits)
    IN  IF AllEq(SubSeq(bits, 1, N), preamb) /\ AllEq(SubSeq(bits, n - N + 1, n), preamb)
        THEN [c |-> Log(c, LogMsg(c, c.time, "FRAME SYNC (N)")), ret |-> 0]
        ELSE IF AllNe(SubSeq(bits, 1, N), preamb) /\ AllNe(SubSeq(bits, n - N + 1, n), preamb)
        THEN [c |-> Log(c, LogMsg(c, c.time, "FRAME SYNC (R)")), ret |-> 1]
        ELSE [c |-> c, ret |-> -1]

\* a decoder calls sync_frame(ch, preamb, bits) with a preamble of one bit or
\* more and at least as many bits
call_sync_frame ==
    /\ call = NoCall
    /\ \E preamb \in BitArrays(MaxPreamb) \ {<<>>}, bits \in BitArrays(MaxBits) :
          /\ Len(bits) >= Len(preamb)
          /\ \E r \in {sync_frame_bits(ch[0], preamb, bits)} :
                /\ call' = [op |-> "sync_frame", preamb |-> preamb, bits |-> bits,
                            ch |-> ch[0], ret |-> r.ret]
                /\ ch' = [ch EXCEPT ![0] = r.c]
    /\ UNCHANGED <<i, ix, pc, jx, iend, nloss, pre, mid, tables>>

NextLib ==
    \/ test_01 \/ test_02 \/ call_decode_NB_LDPC \/ func_test_01
    \/ new_buff \/ call_add_buff \/ init_buff \/ call_sync_frame

\* the receiver as it is constructed for one signal
InitLib == Init /\ ch[0].sig = "L6D"

SpecLib == InitLib /\ [][NextLib]_vars

\* C12: decoding the encoded bits, scaled to the soft symbols 0 and 255,
\* gives back the bits that were encoded; N >= 1 bits are encoded into
\* 2 (N + 6) bits and len(s) symbols are decoded into len(s) / 2 - 6 bits;
\* for no bits both functions return the empty array.
C12_ConvRoundTrip ==
    call.op = "conv" =>
        LET N == Len(call.org_data)
        IN  /\ call.dec_data = call.org_data
            /\ N >= 1 => /\ Len(call.enc_data) = 2 * (N + 6)
                         /\ Len(call.dec_data) = (Len(call.sym) \div 2) - 6
            /\ N = 0 => call.enc_data = <<>> /\ call.dec_data = <<>>

C12_Witness ==
    /\ call.op = "conv"
    /\ call.org_data = <<1, 0, 1, 1, 0, 1>>
    /\ Len(call.enc_data) = 24
    /\ call.dec_data = call.org_data

\* the number of data symbols of y that differ from those of x
ErrCount(x, y) == Cardinality({k \in 1 .. 223 : x[k] # y[k]})

ParityHolds(code) ==
    \A r \in 1 .. Tanner.m :
        gf_sum([k \in 1 .. Len(Tanner.H_idx[r]) |->
                   GF_MUL[Tanner.H_ele[r][k]][code[Tanner.H_idx[r][k] + 1]]],
               Len(Tanner.H_idx[r])) = 0

\* C14: decode_NB_LDPC returns a count of errors only with the bits of an
\* estimate for which every parity-check equation holds; it returns -1 when
\* none of the MAX_ITER estimates it tested satisfies them; a code word is
\* returned as it came, with the count 0 and without any iteration.
C14_ParityChecked ==
    call.op = "nb_ldpc" =>
        /\ call.syms_dec = SubSeq(gf2bin(call.code), 1, Tanner.m * N_GF)
        /\ call.nerr >= 0 =>
              /\ ParityHolds(call.code)
              /\ call.nerr = Cardinality({k \in 1 .. Len(call.syms) :
                                             gf2bin(call.code)[k] # call.syms[k]})
              /\ Len(call.tested) \in 1 .. MAX_ITER
              /\ call.tested[Len(call.tested)] = call.code
              /\ \A k \in 1 .. Len(call.tested) - 1 : ~ParityHolds(call.tested[k])
        /\ call.nerr < 0 =>
              /\ call.nerr = -1
              /\ Len(call.tested) = MAX_ITER
              /\ \A k \in 1 .. MAX_ITER : ~ParityHolds(call.tested[k])
        /\ call.tested[1] = bin2gf(call.syms)
        /\ ParityHolds(bin2gf(call.syms)) =>
              /\ call.nerr = 0
              /\ call.tested = <<bin2gf(call.syms)>>
              /\ call.syms_dec = SubSeq(call.syms, 1, Tanner.m * N_GF)

C14_Witness ==
    /\ call.op = "nb_ldpc"
    /\ call.nerr = 2
    /\ Len(call.tested) = 7
    /\ ParityHolds(call.code)
    /\ ~ParityHolds(bin2gf(call.syms))

\* C15: unpack_bits(pack_bits(b), N) = b for the N bits of b; pack_bits
\* gives ceil(N / 8) bytes, bit i of b is bit 7 - (i mod 8) of the byte
\* i div 8, and the unused low bits of the last byte are 0.
C15_PackRoundTrip ==
    call.op = "pack" =>
        LET b == [k \in 1 .. call.nz |-> 0] \o call.bits
            N == Len(b)
            buff == call.pack_bits
        IN  /\ call.unpack_bits = b
            /\ Len(buff) = (N + 7) \div 8
            /\ \A j \in 1 .. Len(buff) : buff[j] \in 0 .. 255
            /\ \A n \in 0 .. N - 1 :
                  (buff[(n \div 8) + 1] \div Pow2(7 - (n % 8))) % 2 = b[n + 1]
            /\ N % 8 # 0 => buff[Len(buff)] % Pow2(8 - (N % 8)) = 0

C15_Witness ==
    /\ call.op = "pack"
    /\ call.nz = 0
    /\ call.bits = <<1, 0, 1, 1, 0, 0, 0, 1, 1, 1>>
    /\ call.pack_bits = <<177, 192>>
    /\ call.unpack_bits = call.bits

----------------------------------------------------------------------------
(* C16: the channels of one receiver                                        *)

\* the fields of a channel the program holds or emits
Emitted(c) == [c EXCEPT !.calls = {}, !.tested = <<>>, !.glob = {}]

\* the channels after pocket_trk's loop "for j in range(len(ch))" has
\* updated them in the given order, the module tables going from one
\* ch_update to the next
RECURSIVE EpochEnd(_, _, _)
EpochEnd(chs, tabs, order) ==
    IF order = <<>> THEN {[j \in DOMAIN chs |-> Emitted(chs[j])]}
    ELSE LET j == Head(order)
         IN  UNION { EpochEnd([chs EXCEPT ![j] = r.c], r.c.glob,
                              IF Raised(r.c) THEN <<>> ELSE Tail(order))
                     : r \in { q \in ch_update([chs[j] EXCEPT !.glob = tabs],
                                               T * (i - 1)) : Bounded(q.c) } }

\* C16: distinct channels share no mutable state.  At the start of an epoch
\* of a receiver of two channels, the channels (fields, emitted records,
\* counters and log) the epoch can end with are the same whether channel 0
\* or channel 1 is updated first, although the frame-marker and GF(64)
\* tables are built by the first one that needs them.
C16_OrderIndependent ==
    pc = "update" /\ jx = 0 /\ NCh = 2 =>
       EpochEnd(ch, tables, <<0, 1>>) = EpochEnd(ch, tables, <<1, 0>>)

\* two B1CD channels are updated in one epoch without frame sync and before
\* any table exists: channel 0 tests the marker of counter 199 where the
\* search asks for counter 0 and records the frame as counter 0, channel 1
\* then tests counter 0
C16_Witness ==
    /\ Updated /\ NCh = 2 /\ pre.j = 1
    /\ ch[0].sig = "B1CD" /\ ch[0].tested = <<199>>
    /\ ch[0].nav.fsync = ch[0].lock /\ ch[0].nav.seq = 0
    /\ ch[1].tested # <<>> /\ ch[1].tested[1] = 0
    /\ "BCNV1_SF1B" \in tables

----------------------------------------------------------------------------
(* C17: exceptions                                                          *)

\* C17: ch_update never raises, for any channel state and any sample
\* window, an all-zero one included: no update of the receiver ends with an
\* exception, every division and float-to-integer conversion of the
\* tracking loops having an operand it is defined for.
C17_NeverRaises ==
    /\ pc # "raised"
    /\ pre.op # "raise"
    /\ \A j \in DOMAIN ch : ~Raised(ch[j]) /\ ch[j].coff # "nan"

\* a channel in LOCK whose DLL has divided E - L by E + L = 0 after a DLL
\* period of all-zero windows: ch.coff is NaN and the channel is updated again
C17_Witness ==
    /\ Updated /\ Now.state = "LOCK" /\ Now.coff = "nan"
    /\ "DLL" \in Now.calls /\ Now.trk.C = "0" /\ Was.coff # "nan"

----------------------------------------------------------------------------
(* C18: the history buffers                                                 *)

----------------------------------------------------------------------------
(* C19: the idle channel                                                    *)

\* C19: ch_update on a channel in IDLE sets ch.time to the time it is called
\* with and changes nothing else: state, Doppler, code offset, accumulated
\* phase, lock and lost counters, C/N0 and the acquisition, tracking and
\* navigation sub-state are as before, and nothing is logged.  A channel in
\* IDLE leaves IDLE only by the caller's re-arm, which puts it in SRCH.
\* (The time of the call in epoch i is T (i - 1); i has moved on by one when
\* the loop is back at channel 0.)
C19_IdleOnlyTime ==
    /\ Updated /\ Was.state = "IDLE" =>
          /\ Now.time = T * (IF pc = "update" /\ jx = 0 THEN i - 2 ELSE i - 1)
          /\ Now.state = "IDLE"
          /\ Now.fd = Was.fd /\ Now.coff = Was.coff /\ Now.adr = Was.adr
          /\ Now.lock = Was.lock /\ Now.lost = Was.lost /\ Now.cn0 = Was.cn0
          /\ Now.acq = Was.acq /\ Now.trk = Was.trk /\ Now.nav = Was.nav
          /\ Now.nerr = Was.nerr
          /\ Now.log = <<>>
          /\ Now.calls = {}
    /\ Was.state = "IDLE" /\ Now.state # "IDLE" => Rearmed /\ Now.state = "SRCH"

\* a channel that lost its signal is updated in IDLE: its time moves on, its
\* lock count and its tracking state stay as the loss left them
C19_Witness ==
    /\ Updated /\ Was.state = "IDLE" /\ Was.lost = 1 /\ Was.lock > 0
    /\ Now.time > Was.time /\ Now.lock = Was.lock /\ Now.trk.P = "hist"

----------------------------------------------------------------------------
(* C20: symbol sync and frame sync                                          *)

\* C20: for the signals whose symbols come from bit-transition sync (the
\* decoders that call sync_symb: LNAV, SBAS, GLONASS strings, IRNAV and
\* BeiDou D2), a channel in frame sync is in symbol sync in every reachable
\* state: nav.fsync > 0 implies nav.ssync > 0.
C20_FrameImpliesSymbol ==
    \A j \in DOMAIN ch :
        SymbLen(ch[j]) > 0 /\ ch[j].nav.fsync > 0 => ch[j].nav.ssync > 0

\* an L1CA channel in frame sync and symbol sync loses symbol sync at a bit
\* boundary: sync_symb clears nav.ssync and nav.rev, and nav.fsync keeps the
\* lock count of the last frame
C20_Witness ==
    /\ Updated /\ Now.sig = "L1CA" /\ Now.prn = 1 /\ Now.state = "LOCK"
    /\ Was.nav.fsync > 0 /\ Was.nav.ssync > 0
    /\ Now.nav.ssync = 0 /\ Now.nav.fsync = Was.nav.fsync

----------------------------------------------------------------------------
(* C21, C22: what a search decision and the start of tracking reset         *)

\* C21: the acquisition accumulator is reset in the update that makes the
\* search decision, for both outcomes: a channel that is not in SRCH has
\* acq.n_sum = 0 and acq.P_sum = 0, and so has a channel that was just
\* re-armed, whose search integrates from an empty accumulator.
C21_AccumulatorReset ==
    /\ \A j \in DOMAIN ch :
          ch[j].state # "SRCH" => ch[j].acq.n_sum = 0 /\ ch[j].acq.P_sum = "0"
    /\ Updated /\ Was.state = "SRCH" /\ Now.state # "SRCH" =>
          (Was.acq.n_sum + 1) * Was.T >= T_ACQ
    /\ Rearmed => Now.acq.n_sum = 0 /\ Now.acq.P_sum = "0"

\* a search that had integrated two code cycles decides "not found" in its
\* third update and leaves an empty accumulator
C21_Witness ==
    /\ Updated /\ Was.state = "SRCH" /\ Was.acq.n_sum = 2 /\ Was.acq.P_sum = "acc"
    /\ Now.state = "IDLE" /\ Now.acq.n_sum = 0 /\ Now.acq.P_sum = "0"

\* C22: right after a SRCH -> LOCK transition the tracking sub-state and the
\* navigation sync state have their initial zero values and ch.adr is 0;
\* nav.count, nav.data and ch.lost are those of the earlier lock episodes.
C22_EpisodeStart ==
    Updated /\ Was.state = "SRCH" /\ Now.state = "LOCK" =>
        /\ Now.trk.P = "0" /\ Now.trk.C = "0"
        /\ Now.trk.sec_sync = 0 /\ Now.trk.sec_pol = 0 /\ Now.trk.err_phas = "0"
        /\ Now.trk.sumP = "0" /\ Now.trk.sumE = "0"
        /\ Now.trk.sumL = "0" /\ Now.trk.sumN = "0"
        /\ Now.nav.ssync = 0 /\ Now.nav.fsync = 0 /\ Now.nav.rev = 0
        /\ Now.nav.seq = 0 /\ Now.nav.syms = "0"
        /\ Now.adr = "0"
        /\ Now.nav.count = Was.nav.count /\ Now.nav.data = Was.nav.data
        /\ Now.lost = Was.lost

\* the second lock episode of a channel that recorded a frame in the first
\* one and then lost its signal in frame sync
C22_Witness ==
    /\ Updated /\ Was.state = "SRCH" /\ Now.state = "LOCK"
    /\ Was.nav.fsync > 0 /\ Was.trk.P = "hist" /\ Was.adr = "trk"
    /\ Now.nav.count[0] > 0 /\ Now.nav.data # <<>> /\ Now.lost = 1

----------------------------------------------------------------------------
(* C23: sync_frame                                                          *)

\* the bitwise complement of a bit array
Complement(bits) == [k \in DOMAIN bits |-> 1 - bits[k]]

\* C23: sync_frame(ch, preamb, bits) returns 0 iff the first and the last
\* len(preamb) bits both equal the preamble, 1 iff both equal its bitwise
\* complement and -1 in every other case; it never finds both, and it changes
\* no channel state (it writes a log line).
C23_SyncFrame ==
    call.op = "sync_frame" =>
        \A N \in {Len(call.preamb)}, n \in {Len(call.bits)} :
           LET first == SubSeq(call.bits, 1, N)
               last == SubSeq(call.bits, n - N + 1, n)
               normal == first = call.preamb /\ last = call.preamb
               reversed == first = Complement(call.preamb)
                           /\ last = Complement(call.preamb)
           IN  /\ call.ret = 0 <=> normal
               /\ call.ret = 1 <=> reversed
               /\ call.ret = -1 <=> ~normal /\ ~reversed
               /\ ~(normal /\ reversed)
               /\ [ch[0] EXCEPT !.log = call.ch.log] = call.ch

\* the first preamble is found as it is and the last one inverted
C23_Witness ==
    /\ call.op = "sync_frame" /\ call.ret = -1
    /\ call.preamb = <<1, 0>> /\ call.bits = <<1, 0, 1, 1, 0, 1>>

----------------------------------------------------------------------------
(* C24: secondary-code sync of the tracking loop                            *)

\* C24: secondary-code sync has hysteresis.  In an epoch in which the
\* tracking loop runs sync_sec_code on an unsynced channel, sync is declared
\* iff the magnitude of the normalized correlation is >= THRES_SYNC; a synced
\* channel drops the sync only in an epoch with (lock - sec_sync) mod N = 0
\* and only if the magnitude of the mean of the last N prompt values is
\* < THRES_LOST, which is below THRES_SYNC; in every state sec_sync = 0 iff
\* sec_pol = 0, and sec_pol is +1 or -1 while synced.
C24_SecSyncHysteresis ==
    /\ THRES_LOST < THRES_SYNC
    /\ \A j \in DOMAIN ch :
          /\ ch[j].trk.sec_sync = 0 <=> ch[j].trk.sec_pol = 0
          /\ ch[j].trk.sec_sync # 0 => ch[j].trk.sec_sync > 0 /\ ch[j].trk.sec_pol \in {1, -1}
    /\ Updated /\ Was.state = "LOCK" /\ Was.trk.sec_sync = 0 =>
          IF "ch.sync_sec_code" \in Now.calls
          THEN \E P \in SecCorrIn :
                  /\ SecCorr(P) \in Now.calls
                  /\ Now.trk.sec_sync # 0 <=> Abs(P) >= THRES_SYNC
                  /\ Now.trk.sec_sync # 0 =>
                        /\ Now.trk.sec_sync = Now.lock
                        /\ Now.trk.sec_pol = 1 <=> P > 0
          ELSE Now.trk.sec_sync = 0
    /\ Updated /\ Was.state = "LOCK" /\ Was.trk.sec_sync # 0 =>
          /\ Now.trk.sec_sync \in {0, Was.trk.sec_sync}
          /\ Now.trk.sec_sync = 0 =>
                /\ (Now.lock - Was.trk.sec_sync) % Now.N_sec = 0
                /\ \E P \in SecMeanIn : SecMean(P) \in Now.calls /\ Abs(P) < THRES_LOST
          /\ Now.trk.sec_sync # 0 => Now.trk.sec_pol = Was.trk.sec_pol

\* at the end of a code period the mean is -0.003: the sync is kept
C24_Witness ==
    /\ Updated /\ Was.state = "LOCK" /\ Was.trk.sec_sync > 0
    /\ (Now.lock - Was.trk.sec_sync) % Now.N_sec = 0
    /\ SecMean(-3) \in Now.calls
    /\ Now.trk.sec_sync = Was.trk.sec_sync /\ Now.trk.sec_pol = 1

\* a channel that dropped the sync declares it again, inverted
C24_Resync ==
    /\ Updated /\ Was.state = "LOCK" /\ Was.trk.sec_sync = 0
    /\ SecCorr(-40) \in Now.calls
    /\ Now.trk.sec_sync = Now.lock /\ Now.trk.sec_pol = -1

----------------------------------------------------------------------------
(* C25, C26: the pull-in times of the tracking loop                         *)

\* C25: every tracking epoch applies exactly one of FLL and PLL: FLL iff
\* lock * T <= T_FPULLIN, PLL otherwise; once PLL was applied in a lock
\* episode, FLL is not applied in the next epoch and so never again; FLL
\* updates the Doppler with B_FLL[0] while lock * T < T_FPULLIN / 2 and with
\* B_FLL[1] afterwards, and leaves the Doppler alone in the first epoch of the
\* episode (lock = 1).
C25_FLLorPLL ==
    Updated /\ Was.state = "LOCK" =>
        /\ Now.lock = Was.lock + 1
        /\ ("FLL" \in Now.calls) # ("PLL" \in Now.calls)
        /\ "FLL" \in Now.calls <=> Now.lock * Now.T <= T_FPULLIN
        /\ "PLL" \in Was.calls => "FLL" \notin Now.calls
        /\ "B_FLL[0]" \in Now.calls =>
              "FLL" \in Now.calls /\ 2 * Now.lock * Now.T < T_FPULLIN
        /\ "B_FLL[1]" \in Now.calls =>
              "FLL" \in Now.calls /\ 2 * Now.lock * Now.T >= T_FPULLIN
        /\ "FLL" \in Now.calls /\ Now.fd # Was.fd =>
              "B_FLL[0]" \in Now.calls \/ "B_FLL[1]" \in Now.calls
        /\ Now.lock = 1 =>
              /\ "FLL" \in Now.calls /\ Now.fd = Was.fd
              /\ "B_FLL[0]" \notin Now.calls /\ "B_FLL[1]" \notin Now.calls

\* the last epoch of the FLL, at lock * T = T_FPULLIN, with the narrow
\* bandwidth
C25_Witness ==
    /\ Updated /\ Was.state = "LOCK" /\ Now.lock * Now.T = T_FPULLIN
    /\ "FLL" \in Now.calls /\ "B_FLL[1]" \in Now.calls /\ Now.fd = "trk"

\* the first epoch of the PLL
C25_FirstPLL ==
    /\ Updated /\ Was.state = "LOCK" /\ "FLL" \in Was.calls
    /\ "PLL" \in Now.calls /\ Now.fd = "trk"

\* C26: a tracking epoch invokes nav_decode iff lock * T >= T_NPULLIN; so in
\* the epochs of a lock episode with lock * T < T_NPULLIN nav.ssync,
\* nav.fsync, nav.rev, nav.count and nav.data stay as they are and no record
\* is emitted (the log has '$LOG' lines only).
C26_NavPullIn ==
    Updated /\ Was.state = "LOCK" =>
        /\ "nav_decode" \in Now.calls <=> Now.lock * Now.T >= T_NPULLIN
        /\ "nav_decode" \notin Now.calls => mid.a = mid.b
        /\ Now.lock * Now.T < T_NPULLIN =>
              /\ Now.nav.ssync = Was.nav.ssync /\ Now.nav.fsync = Was.nav.fsync
              /\ Now.nav.rev = Was.nav.rev /\ Now.nav.count = Was.nav.count
              /\ Now.nav.data = Was.nav.data
              /\ \A k \in DOMAIN Now.log : Now.log[k][1] = "$LOG"

\* the last epoch before the pull-in time of a channel that holds records of
\* an earlier lock episode
C26_Witness ==
    /\ Updated /\ Was.state = "LOCK" /\ (Now.lock + 1) * Now.T = T_NPULLIN
    /\ "nav_decode" \notin Now.calls /\ Now.nav.count[0] > 0
    /\ Now.nav.data = Was.nav.data /\ Now.lost = 1

\* the first epoch in which nav_decode is invoked
C26_FirstDecode ==
    /\ Updated /\ Was.state = "LOCK" /\ Now.lock * Now.T = T_NPULLIN
    /\ "nav_decode" \in Now.calls /\ "nav_decode" \notin Was.calls

----------------------------------------------------------------------------
(* C27: the polarity nav.rev                                                *)

\* the signals whose frames are found by subframe 1 markers
MarkerFramed == {"L1CD", "B1CD", "I1SD"}

\* the latest nav_decode recorded a frame that a frame sync function found
\* as it is (inverted = FALSE) or bit-inverted (inverted = TRUE)
Matched(inverted) ==
    /\ Recorded
    /\ (IF inverted THEN "FRAME SYNC (R)" ELSE "FRAME SYNC (N)") \in mid.b.calls

\* C27: nav.rev follows its documented convention (0: normal, 1: reversed)
\* for every signal: after a successful frame decode nav.rev = 0 iff the
\* preambles or markers of the frame were matched un-inverted and nav.rev = 1
\* iff they were matched bit-inverted.
C27_RevConvention ==
    /\ Matched(FALSE) => mid.b.nav.rev = 0
    /\ Matched(TRUE) => mid.b.nav.rev = 1

\* a B1CD frame whose markers were matched as they are leaves nav.rev = 1
C27_Witness ==
    /\ Matched(FALSE) /\ mid.b.sig = "B1CD" /\ mid.b.nav.rev = 1
    /\ mid.b.nav.fsync = mid.b.lock

\* the convention holds for the frames sync_frame finds by two preambles
C27_PreambleFramed ==
    mid.b.sig \notin MarkerFramed =>
        /\ Matched(FALSE) => mid.b.nav.rev = 0
        /\ Matched(TRUE) => mid.b.nav.rev = 1

\* an LNAV frame found inverted by its preambles leaves nav.rev = 1
C27_PreambleWitness ==
    Matched(TRUE) /\ mid.b.sig = "L1CA" /\ mid.b.prn = 1 /\ mid.b.nav.rev = 1

----------------------------------------------------------------------------
(* C28: the number of errors corrected                                      *)

\* the signals with Reed-Solomon and with LDPC frames
RSSigs == {"L6D", "L6E"}

LDPCSigs == {"L1CD", "B1CD", "B2AD", "B2BI", "I1SD"}

\* the error counts an LDPC decoder reports for a frame of one block or of
\* two (subframes 2 and 3)
LDPCCounts ==
    LET n == {e \in decode_LDPC : e >= 0}
    IN  n \cup {a + b : a \in n, b \in n}

\* C28: after every successful decode of a frame protected by Reed-Solomon
\* (L6D, L6E) or LDPC (L1CD, B1CD, B2AD, B2BI, I1SD) nav.nerr is the
\* non-negative error count the decoder reported for that frame.
C28_NerrReported ==
    /\ Recorded /\ mid.b.sig \in RSSigs =>
          mid.b.nerr >= 0 /\ mid.b.nav.nerr = mid.b.nerr
    /\ Recorded /\ mid.b.sig \in LDPCSigs =>
          "FEC -1" \notin mid.b.calls /\ mid.b.nav.nerr \in LDPCCounts

\* an L6E frame in which decode_rs corrected two symbols: nav.nerr is still 0
C28_Witness ==
    /\ Recorded /\ mid.b.sig = "L6E" /\ "decode_rs" \in mid.b.calls
    /\ mid.b.nerr = 2 /\ mid.b.nav.nerr = 0

\* the LDPC decoders that reported a count leave it in nav.nerr
C28_LDPCCount ==
    Recorded /\ mid.b.sig \in LDPCSigs /\ "FEC -1" \notin mid.b.calls =>
        mid.b.nav.nerr \in LDPCCounts

\* a B2AD frame with three corrected bits
C28_LDPCWitness ==
    /\ Recorded /\ mid.b.sig = "B2AD" /\ "decode_LDPC" \in mid.b.calls
    /\ mid.b.nav.nerr = 3

----------------------------------------------------------------------------
(* C29: the record lines of the log                                         *)

\* the tags of the message types
Tags ==
    {"$LNAV", "$SBAS", "$CNAV", "$CNV2", "$L6FRM", "$GSTR", "$G3OCD", "$INAV",
     "$FNAV", "$D1NAV", "$D2NAV", "$BCNV1", "$BCNV2", "$BCNV3", "$IRNV1",
     "$IRNAV"}

\* the lines of the latest nav_decode that are records
RecordLines == {k \in DOMAIN mid.b.log : mid.b.log[k][1] # "$LOG"}

\* the line is tag, frame time, signal, PRN and payload for the record rec
RecordLine(l, rec) ==
    /\ Len(l) = 5
    /\ l[1] \in Tags
    /\ l[2] = rec.time /\ l[3] = mid.b.sig /\ l[4] = mid.b.prn /\ l[5] = "hex"

\* C29: every validated frame produces exactly one log record: the fixed tag
\* of its message type, then the frame time, the signal name, the PRN and
\* the payload as a hex string; the tag depends neither on the time nor on
\* the payload.
C29_RecordLine ==
    Recorded =>
        /\ Cardinality(RecordLines) = 1
        /\ \A k \in RecordLines :
              RecordLine(mid.b.log[k], mid.b.nav.data[Len(mid.b.nav.data)])

\* a D1 NAV subframe of B1I: the tag is made of the time and the time field
\* holds the subframe type
C29_Witness ==
    /\ Recorded /\ mid.b.sig = "B1I" /\ mid.b.prn = 6
    /\ \E k \in RecordLines :
          mid.b.log[k] = <<"$D<time>NAV", 1, "B1I", 6, "hex">>

\* the records of the other message types, L6 frames apart, are as C29 says
C29_OtherRecords ==
    Recorded /\ mid.b.sig \notin {"B1I", "B2I", "B3I", "L6D", "L6E"} =>
        /\ Cardinality(RecordLines) = 1
        /\ \A k \in RecordLines :
              RecordLine(mid.b.log[k], mid.b.nav.data[Len(mid.b.nav.data)])

\* an L6 frame is logged with the number of corrected symbols before the
\* payload
C29_L6Record ==
    Recorded /\ mid.b.sig \in {"L6D", "L6E"} =>
        /\ Cardinality(RecordLines) = 1
        /\ \A k \in RecordLines :
              mid.b.log[k] = <<"$L6FRM", mid.b.nav.data[Len(mid.b.nav.data)].time,
                               mid.b.sig, mid.b.prn, mid.b.nerr, "hex">>

----------------------------------------------------------------------------
(* C30: frame sync of the signals whose next frame is tested at one lock    *)
(* count                                                                    *)

\* the decoders of these signals test the next frame when lock = fsync + P
\* and have no other branch for a channel in frame sync
EqualitySigs == {"L1CA", "E5AI", "E5BI", "B1I", "I5S"}

\* C30: frame sync of L1CA (LNAV), E5AI, E5BI, B1I and I5S never goes stale
\* while the channel stays in LOCK: after every update nav.fsync > 0 implies
\* lock - nav.fsync <= P, P the frame period in lock counts, so a missed or
\* failed frame returns the synchronizer to the frame search.
C30_FrameSyncFresh ==
    \A j \in DOMAIN ch :
        /\ ch[j].sig \in EqualitySigs /\ FrameType(ch[j]) # "SBAS"
        /\ ch[j].state = "LOCK" /\ ch[j].nav.fsync > 0
        => ch[j].lock - ch[j].nav.fsync <= FrameCycle(ch[j])

\* an L1CA channel that lost symbol sync at the bit boundary where the next
\* subframe ends: one epoch later it is still in frame sync, 6001 lock counts
\* after the last subframe
C30_Witness ==
    /\ Updated /\ Now.sig = "L1CA" /\ Now.prn = 1 /\ Now.state = "LOCK"
    /\ Now.nav.fsync > 0 /\ Now.lock = Now.nav.fsync + 6001
    /\ Now.nav.ssync = 0

\* the same of an E5AI channel whose tracking loop dropped the secondary
\* code sync
C30_SecCodeWitness ==
    /\ Updated /\ Now.sig = "E5AI" /\ Now.state = "LOCK"
    /\ Now.nav.fsync > 0 /\ Now.lock = Now.nav.fsync + 10001
    /\ Now.trk.sec_sync = 0

----------------------------------------------------------------------------
(* C31: frame sync of the signals whose next frame is searched from         *)
(* lock = fsync + P on                                                      *)

\* C31: for SBAS, L2CM, L5I, L5 SBAS, G1CA/G2CA, G3OCD, B2AD and B2BI, when
\* more than two frame periods have passed since the last frame sync and no
\* frame was validated (lock > fsync + 2P), an update in which the decoder
\* gets to its frame sync branch and validates no frame clears frame sync
\* and polarity: nav.fsync = nav.rev = 0.
C31_OverdueCleared ==
    /\ Updated /\ Was.state = "LOCK" /\ FrameType(Was) \in SearchedFrames
    /\ Was.nav.fsync > 0 /\ Now.lock > Was.nav.fsync + 2 * FrameCycle(Was)
    /\ "frame" \in Now.calls /\ ~Recorded
    => Now.nav.fsync = 0 /\ Now.nav.rev = 0

\* a B2BI channel two frame periods and two cycles after its last frame: the
\* frame search ran again, found no preamble and left frame sync as it was
C31_Witness ==
    /\ Updated /\ Was.state = "LOCK" /\ Now.sig = "B2BI" /\ ~Recorded
    /\ Was.nav.fsync > 0 /\ Now.lock = Was.nav.fsync + 2002
    /\ "frame" \in Now.calls /\ Now.nav.fsync = Was.nav.fsync

----------------------------------------------------------------------------
(* C32: the records and the counters of a channel                           *)

\* C32: in every state len(nav.data) = nav.count[0]; an operation on a
\* channel (an update, also one that loses lock or starts tracking again, or
\* a re-arming) leaves the records it found in nav.data as they are, in
\* front of the one it may append, and does not decrease nav.count[0],
\* nav.count[1] or ch.lost.
C32_RecordsAndCounts ==
    /\ \A j \in DOMAIN ch : Len(ch[j].nav.data) = ch[j].nav.count[0]
    /\ pre.op # "new" =>
          /\ Len(Now.nav.data) \in {Len(Was.nav.data), Len(Was.nav.data) + 1}
          /\ SubSeq(Now.nav.data, 1, Len(Was.nav.data)) = Was.nav.data
          /\ Now.nav.count[0] >= Was.nav.count[0]
          /\ Now.nav.count[1] >= Was.nav.count[1]
          /\ Now.lost >= Was.lost

\* a channel that holds a record loses lock: the record and the counts stay
C32_Witness ==
    /\ Updated /\ Was.state = "LOCK" /\ Now.state = "IDLE"
    /\ Now.lost = Was.lost + 1 /\ Now.nav.count[0] = 1 /\ Now.nav.count[1] = 1
    /\ Now.nav.data = Was.nav.data /\ Len(Now.nav.data) = 1

----------------------------------------------------------------------------
(* C33: re-arming under pocket_trk                                          *)

\* the place of channel j in the scan that starts after index x
Dist(j, x) == (j - x - 1 + NCh) % NCh

Idle == {j \in DOMAIN ch : ch[j].state = "IDLE"}

\* C33: at the end of a cycle i with i mod int(CYC_SRCH / T) = 0 one channel
\* at most is re-armed: the first IDLE channel after the index ix selected
\* before, in cyclic order, which becomes the new ix; no other cycle and no
\* channel in SRCH or LOCK is re-armed.  A channel that stays IDLE moves up
\* in the scan with every search cycle, so it is re-armed within len(ch) of
\* them.
C33_RoundRobinRearm ==
    [][ pc = "srch" /\ pc' = "update" =>
          IF i % NCYC = 0 /\ Idle # {}
          THEN \E n \in Idle :
                  /\ \A m \in Idle : Dist(n, ix) <= Dist(m, ix)
                  /\ ch' = [ch EXCEPT ![n].state = "SRCH"]
                  /\ ix' = n
                  /\ \A j \in Idle \ {n} :
                        Dist(j, ix') < Dist(j, ix) /\ Dist(j, ix) <= NCh - 1
          ELSE ch' = ch /\ ix' = ix ]_vars

\* both channels of a receiver missed their signal in the first search: the
\* first search cycle re-armed channel 1, the second one re-arms channel 0
C33_Witness ==
    /\ Rearmed /\ pre.j = 0 /\ ix = 0 /\ NCh = 2 /\ i = 2 * NCYC + 1
    /\ Was.lock = 0 /\ Was.lost = 0 /\ Was.state = "IDLE"

----------------------------------------------------------------------------
(* C34: C/N0 and the length of a lock episode                               *)

\* W = int(T_CN0 / T), the epochs of a C/N0 window
W(c) == T_CN0 \div c.T

\* C34: ch.cn0 changes in a lock episode only in the epochs in which lock is
\* a positive multiple of W, so a channel leaves LOCK only at the end of such
\* an epoch, a lock episode has W epochs at least, and a channel in LOCK has
\* ch.cn0 >= THRES_CN0[1].
C34_LossAtWindowEnd ==
    /\ Updated /\ Was.state = "LOCK" /\ Now.cn0 # Was.cn0 =>
          Now.lock > 0 /\ Now.lock % W(Now) = 0
    /\ Updated /\ Was.state = "LOCK" /\ Now.state # "LOCK" =>
          /\ Now.state = "IDLE" /\ Now.cn0 < THRES_CN0_LOST
          /\ Now.lock >= W(Now) /\ Now.lock % W(Now) = 0
    /\ \A j \in DOMAIN ch : ch[j].state = "LOCK" => ch[j].cn0 >= THRES_CN0_LOST

\* a channel leaves LOCK at the end of its second C/N0 window, the smoothed
\* C/N0 having stayed at the threshold in the first one
C34_Witness ==
    /\ Updated /\ Was.state = "LOCK" /\ Was.cn0 = THRES_CN0_LOST
    /\ Now.state = "IDLE" /\ Now.lock = 2 * W(Now) /\ Now.cn0 < THRES_CN0_LOST

\* C35: whenever the last N entries of the prompt history are averaged for a
\* secondary-code decision, the data symbol of sdr_nav.sync_sec_code or the
\* loss test of sdr_ch.sync_sec_code, every entry of the window has had the
\* secondary code removed, also in the epoch in which the sync is declared
C35_WindowWiped ==
    Updated => /\ "ch.sync_sec_code: code left" \notin Now.calls
               /\ "nav.sync_sec_code: code left" \notin Now.calls

\* a data symbol is averaged over a window with the code removed throughout
C35_Witness ==
    /\ Updated /\ Was.state = "LOCK" /\ Was.trk.sec_sync > 0
    /\ Now.trk.sec_sync = Was.trk.sec_sync
    /\ Now.lock = Was.trk.sec_sync + 2 * Now.N_sec
    /\ "nav.sync_sec_code: code removed" \in Now.calls

\* the data symbol of the epoch in which the sync is declared
C35_FirstSymbol ==
    Updated /\ Was.trk.sec_sync = 0 /\ Now.trk.sec_sync = Now.lock
        => "nav.sync_sec_code: code left" \notin Now.calls

\* the data symbols of the later code periods of a sync
C35_LaterSymbols ==
    Updated /\ Was.trk.sec_sync > 0
        => "nav.sync_sec_code: code left" \notin Now.calls

\* the loss test reads the prompt value of its own epoch as correlated
C35_LossTest ==
    Updated /\ Was.trk.sec_sync > 0 /\ Now.lock > Was.lock
            /\ (Now.lock - Was.trk.sec_sync) % Now.N_sec = 0
        => "ch.sync_sec_code: code left" \in Now.calls

\* C36: decode_NB_LDPC reports a count of errors, not -1, whenever the
\* estimate produced by any of its MAX_ITER update rounds, the last one
\* included, satisfies every parity-check equation
C36_LastRoundTested ==
    call.op = "nb_ldpc" /\ ParityHolds(call.code) => call.nerr >= 0

\* a decoding given up after MAX_ITER update rounds and as many parity
\* tests, none of them on the estimate of the last round, which is a code word
C36_Witness ==
    /\ call.op = "nb_ldpc" /\ call.nerr = -1
    /\ call.rounds = MAX_ITER /\ Len(call.tested) = MAX_ITER
    /\ call.tested[1] = bin2gf(call.syms)
    /\ \A k \in 1 .. MAX_ITER : call.tested[k] # call.code
    /\ ParityHolds(call.code)

\* the estimate of update round k is the one parity test k + 1 reads, so
\* every round but the last is followed by a test
C36_RoundsTested ==
    call.op = "nb_ldpc" =>
        /\ call.rounds = IF call.nerr >= 0 THEN Len(call.tested) - 1 ELSE MAX_ITER
        /\ Len(call.tested) <= MAX_ITER

\* the mean of the last N prompt values that sync_symb read reached THRES_LOST
SymbolKept(c) ==
    \E P \in SymbMeanIn : SymbMean(P) \in c.calls /\ Abs(P) >= THRES_LOST

\* C37: while the symbol sync is held with nav.ssync = s, sync_symb(ch, N)
\* adds exactly one symbol to nav.syms and returns True exactly in the epochs
\* with (lock - s) mod N = 0 and a mean of the last N prompt values of
\* magnitude THRES_LOST or more; in every other epoch, and in the epoch in
\* which the sync is declared, it returns False and adds no symbol; the
\* decoder calls it in every epoch and moves nav.ssync by multiples of N
\* only, so the symbols of one sync episode are N epochs apart
C37_SymbolEpochs ==
    /\ Updated /\ Now.state = "LOCK" /\ SymbLen(Now) > 0 /\ Was.nav.ssync > 0
            => "sync_symb" \in Now.calls
    /\ Updated /\ "sync_symb" \in Now.calls =>
          LET s == Was.nav.ssync
              N == SymbLen(Now)
          IN  /\ N > 0
              /\ IF s > 0 /\ (Now.lock - s) % N = 0 /\ SymbolKept(Now)
                 THEN /\ "sync_symb: True" \in Now.calls
                      /\ "sync_symb: False" \notin Now.calls
                      /\ "add_buff(syms)" \in Now.calls
                      /\ "add_buff(syms) twice" \notin Now.calls
                      /\ Now.nav.syms = "sym"
                 ELSE /\ "sync_symb: False" \in Now.calls
                      /\ "sync_symb: True" \notin Now.calls
                      /\ "add_buff(syms)" \notin Now.calls
                      /\ Now.nav.syms = Was.nav.syms
              /\ s = 0 => Now.nav.ssync \in {0, Now.lock - (IF N <= 2 THEN 1 ELSE 2)}
              /\ s > 0 /\ Now.nav.ssync > 0 => (Now.nav.ssync - s) % N = 0
              /\ s > 0 /\ Now.nav.ssync = 0 => (Now.lock - s) % N = 0

\* the second symbol after the sync was declared at lock = s + 1
C37_Witness ==
    /\ Updated /\ Now.sig = "L1CA" /\ Now.prn = 120
    /\ Was.nav.ssync > 0 /\ Now.nav.ssync = Was.nav.ssync
    /\ Now.lock = Was.nav.ssync + 2 * SymbLen(Now)
    /\ "sync_symb: True" \in Now.calls /\ "add_buff(syms)" \in Now.calls

\* the epoch in which the symbol sync is declared
C37_Declared ==
    /\ Updated /\ Was.nav.ssync = 0 /\ Now.nav.ssync = Now.lock - 2
    /\ "transition = -0.040" \in Now.calls
    /\ "sync_symb: False" \in Now.calls /\ "add_buff(syms)" \notin Now.calls

====
